---- MODULE Spec2Model ----
(***************************************************************************)
(* Model of the document scoring engine of business-justification-         *)
(* assistant (validator/js/validator.js): the pattern library, the four    *)
(* detect functions, the four dimension scorers and validateOnePager.      *)
(*                                                                         *)
(* A document is a sequence of lines (the string is the lines joined by    *)
(* "\n").  A pattern of the library is the table of the number of matches  *)
(* its regular expression has in each line of the vocabulary; the lines    *)
(* are chosen so that no match spans a line break, hence the number of     *)
(* matches in a document is the sum over its lines.  lastIndex is the      *)
(* lastIndex property of each regular expression of the library, counted   *)
(* in lines; partialResults holds the values already returned to a run     *)
(* of validateOnePager that makes its five calls one step at a time.       *)
(***************************************************************************)
EXTENDS Integers, Sequences, FiniteSets, TLC

VARIABLES text, op, result, slopPenalty, calls, awards, lastIndex, partialResults

vars == <<text, op, result, slopPenalty, calls, awards, lastIndex, partialResults>>

(***************************************************************************)
(* Bounds                                                                  *)
(***************************************************************************)
MaxLines == 2        \* lines of a document drawn from one vocabulary
MaxPenalty == 10     \* largest raw penalty the slop detector returns
MaxSlopIssues == 3   \* most issues the slop detector returns
MaxCount == 3        \* largest match count of a detection result taken alone

(***************************************************************************)
(* Vocabulary: the lines documents are built from, grouped by the pillar   *)
(* whose signals they carry.                                               *)
(***************************************************************************)
VocabEvidence ==
  {"# Context", "# Problem", "We lose 40% annually",
   "40% of 200 users lose 10 hours", "This is a growing issue",
   "According to Gartner", "A recent survey", "Customer wait time",
   "Baseline and target"}

VocabFinancial ==
  {"# Financial", "Best ROI", "(100000 - 50000) / 50000 = 100%", "ROI: 150%",
   "Payback expected", "Within 6 months", "TCO reviewed",
   "Cost is $5,000 total"}

VocabOptions ==
  {"# Options", "Do nothing", "Option A", "One alternative",
   "Alternative approach", "Minimal pilot", "Full investment",
   "We recommend this", "Trade-off analysis"}

VocabExecution ==
  {"# Executive Summary", "# Risks",
   "Timeline risk with mitigation and contingency", "Key risk",
   "# Stakeholders", "Finance approval"}

\* lines with and without the markdown heading marker
VocabSections ==
  {"Problem", "## Problem", "Solution", "# Solution",
   "Financial Justification", "Options Analysis", "# Options Analysis",
   "We have a challenge with X."}

\* lines with the signals of the legacy detect functions
VocabLegacy ==
  {"# Success Metrics", "Measurable target: reduce cost 20%",
   "In scope: we will build the design", "Out of scope: future API work",
   "# Scope"}

\* the well-structured one-pager of validator-inline.test.js:47-94
GoodDocument ==
  <<"",
    "# Executive Summary",
    "Request $30K to automate data entry, saving $50K annually. ROI: 167%. Payback: 7 months.",
    "",
    "# Problem Statement",
    "Our customers struggle with manual data entry, causing 500+ hours wasted per month.",
    "According to Gartner 2024, industry average is 100 hours. This costs $50,000 annually",
    "in lost productivity (source: Q3 Ops Report). Before: 500 hours. After: 100 hours target.",
    "",
    "# Financial Justification",
    "## ROI Calculation",
    "- Annual benefit: $50K saved",
    "- Cost: $30K implementation",
    "- ROI: (50,000 - 30,000) / 30,000 × 100 = 67%",
    "",
    "## Payback Period",
    "Monthly savings of $4.2K, payback achieved in 7 months.",
    "",
    "## 3-Year TCO",
    "- Year 1: $30K + $5K ops = $35K",
    "- Years 2-3: $5K/year",
    "- Total: $45K vs $150K benefit",
    "",
    "# Options Analysis",
    "## Option 1: Do Nothing",
    "Continue losing $50K annually. Risk: team burnout, customer churn.",
    "",
    "## Option 2: Minimal ($10K)",
    "Partial automation, 40% reduction. Basic phase 1 only.",
    "",
    "## Option 3: Full Solution ($30K) - RECOMMENDED",
    "Full automation, 80% reduction. Best ROI.",
    "",
    "# Risks",
    "1. Integration risk - Mitigation: phased rollout",
    "2. Training risk - Mitigation: documentation",
    "",
    "# Stakeholders",
    "- Finance: Budget approved, payback acceptable",
    "- HR: Training plan in place",
    "- Owner: Jane Doe (responsible)",
    "- Lead: John Smith (accountable)",
    "",
    "# Timeline",
    "- Phase 1 (Q1): Design and prototype",
    "- Phase 2 (Q2): Development and testing",
    "- Milestone: Production launch by end of Q2",
    "      ">>

NoMatch == [l \in {} |-> 0]

(***************************************************************************)
(* Pattern library (validator.js:25-122).  Each entry maps a line to the   *)
(* number of non-overlapping matches of the regular expression in it;      *)
(* a line that is absent has no match.                                     *)
(***************************************************************************)
EVIDENCE_PATTERNS ==
  [problemSection |->
        ("# Context" :> 1) @@
        ("# Problem" :> 1) @@
        ("## Problem" :> 1) @@
        ("# Problem Statement" :> 1),
    problemLanguage |->
        ("# Problem" :> 1) @@
        ("This is a growing issue" :> 1) @@
        ("Problem" :> 1) @@
        ("## Problem" :> 1) @@
        ("We have a challenge with X." :> 1) @@
        ("# Problem Statement" :> 1) @@
        ("Our customers struggle with manual data entry, causing 500+ hours wasted per month." :> 1),
    quantified |->
        ("We lose 40% annually" :> 1) @@
        ("40% of 200 users lose 10 hours" :> 3) @@
        ("(100000 - 50000) / 50000 = 100%" :> 1) @@
        ("ROI: 150%" :> 1) @@
        ("Within 6 months" :> 1) @@
        ("Measurable target: reduce cost 20%" :> 1) @@
        ("Request $30K to automate data entry, saving $50K annually. ROI: 167%. Payback: 7 months." :> 4) @@
        ("According to Gartner 2024, industry average is 100 hours. This costs $50,000 annually" :> 1) @@
        ("in lost productivity (source: Q3 Ops Report). Before: 500 hours. After: 100 hours target." :> 2) @@
        ("- Annual benefit: $50K saved" :> 1) @@
        ("- Cost: $30K implementation" :> 1) @@
        ("- ROI: (50,000 - 30,000) / 30,000 × 100 = 67%" :> 1) @@
        ("Monthly savings of $4.2K, payback achieved in 7 months." :> 2) @@
        ("- Year 1: $30K + $5K ops = $35K" :> 3) @@
        ("- Years 2-3: $5K/year" :> 1) @@
        ("- Total: $45K vs $150K benefit" :> 2) @@
        ("Continue losing $50K annually. Risk: team burnout, customer churn." :> 1) @@
        ("## Option 2: Minimal ($10K)" :> 1) @@
        ("Partial automation, 40% reduction. Basic phase 1 only." :> 1) @@
        ("## Option 3: Full Solution ($30K) - RECOMMENDED" :> 1) @@
        ("Full automation, 80% reduction. Best ROI." :> 1),
    businessFocus |->
        ("Customer wait time" :> 1) @@
        ("Continue losing $50K annually. Risk: team burnout, customer churn." :> 1),
    sources |->
        ("According to Gartner" :> 2) @@
        ("A recent survey" :> 1) @@
        ("According to Gartner 2024, industry average is 100 hours. This costs $50,000 annually" :> 2),
    beforeAfter |->
        ("Baseline and target" :> 2) @@
        ("Measurable target: reduce cost 20%" :> 1) @@
        ("in lost productivity (source: Q3 Ops Report). Before: 500 hours. After: 100 hours target." :> 3) @@
        ("Partial automation, 40% reduction. Basic phase 1 only." :> 1) @@
        ("Full automation, 80% reduction. Best ROI." :> 1)]

FINANCIAL_PATTERNS ==
  [financialSection |->
        ("# Financial" :> 1) @@
        ("# Financial Justification" :> 1) @@
        ("## ROI Calculation" :> 1) @@
        ("## Payback Period" :> 1),
    roiCalculation |->
        ("Best ROI" :> 1) @@
        ("ROI: 150%" :> 1) @@
        ("Request $30K to automate data entry, saving $50K annually. ROI: 167%. Payback: 7 months." :> 1) @@
        ("## ROI Calculation" :> 1) @@
        ("- ROI: (50,000 - 30,000) / 30,000 × 100 = 67%" :> 1) @@
        ("Full automation, 80% reduction. Best ROI." :> 1),
    roiFormula |->
        ("(100000 - 50000) / 50000 = 100%" :> 1) @@
        ("ROI: 150%" :> 1) @@
        ("Request $30K to automate data entry, saving $50K annually. ROI: 167%. Payback: 7 months." :> 1) @@
        ("- ROI: (50,000 - 30,000) / 30,000 × 100 = 67%" :> 1),
    paybackPeriod |->
        ("Payback expected" :> 1) @@
        ("Request $30K to automate data entry, saving $50K annually. ROI: 167%. Payback: 7 months." :> 1) @@
        ("## Payback Period" :> 1) @@
        ("Monthly savings of $4.2K, payback achieved in 7 months." :> 1) @@
        ("- Finance: Budget approved, payback acceptable" :> 1),
    paybackTime |->
        ("Within 6 months" :> 1) @@
        ("Request $30K to automate data entry, saving $50K annually. ROI: 167%. Payback: 7 months." :> 1) @@
        ("Monthly savings of $4.2K, payback achieved in 7 months." :> 1),
    tcoAnalysis |->
        ("TCO reviewed" :> 1) @@
        ("## 3-Year TCO" :> 2),
    dollarAmounts |->
        ("Within 6 months" :> 1) @@
        ("Cost is $5,000 total" :> 1) @@
        ("Request $30K to automate data entry, saving $50K annually. ROI: 167%. Payback: 7 months." :> 3) @@
        ("According to Gartner 2024, industry average is 100 hours. This costs $50,000 annually" :> 1) @@
        ("- Annual benefit: $50K saved" :> 1) @@
        ("- Cost: $30K implementation" :> 1) @@
        ("Monthly savings of $4.2K, payback achieved in 7 months." :> 3) @@
        ("- Year 1: $30K + $5K ops = $35K" :> 3) @@
        ("- Years 2-3: $5K/year" :> 1) @@
        ("- Total: $45K vs $150K benefit" :> 2) @@
        ("Continue losing $50K annually. Risk: team burnout, customer churn." :> 1) @@
        ("## Option 2: Minimal ($10K)" :> 1) @@
        ("## Option 3: Full Solution ($30K) - RECOMMENDED" :> 1)]

OPTIONS_PATTERNS ==
  [optionsSection |->
        ("# Options" :> 1) @@
        ("# Options Analysis" :> 1) @@
        ("## Option 1: Do Nothing" :> 1) @@
        ("## Option 2: Minimal ($10K)" :> 1) @@
        ("## Option 3: Full Solution ($30K) - RECOMMENDED" :> 1),
    doNothing |->
        ("Do nothing" :> 1) @@
        ("Option A" :> 1) @@
        ("## Option 1: Do Nothing" :> 1),
    alternatives |->
        ("Option A" :> 1) @@
        ("One alternative" :> 1) @@
        ("Alternative approach" :> 2) @@
        ("## Option 1: Do Nothing" :> 1) @@
        ("## Option 2: Minimal ($10K)" :> 1) @@
        ("## Option 3: Full Solution ($30K) - RECOMMENDED" :> 1),
    recommendation |->
        ("We recommend this" :> 1),
    comparison |->
        ("Trade-off analysis" :> 1) @@
        ("- Total: $45K vs $150K benefit" :> 1),
    minimalInvestment |->
        ("Minimal pilot" :> 1) @@
        ("## Option 2: Minimal ($10K)" :> 1) @@
        ("Partial automation, 40% reduction. Basic phase 1 only." :> 2) @@
        ("- Phase 1 (Q1): Design and prototype" :> 1),
    fullInvestment |->
        ("Full investment" :> 1)]

EXECUTION_PATTERNS ==
  [executiveSummary |->
        ("# Executive Summary" :> 1),
    risksSection |->
        ("# Risks" :> 1),
    riskLanguage |->
        ("Timeline risk with mitigation and contingency" :> 3) @@
        ("Key risk" :> 1) @@
        ("Continue losing $50K annually. Risk: team burnout, customer churn." :> 1) @@
        ("1. Integration risk - Mitigation: phased rollout" :> 2) @@
        ("2. Training risk - Mitigation: documentation" :> 2),
    stakeholderSection |->
        ("# Stakeholders" :> 1),
    stakeholderConcerns |->
        ("Finance approval" :> 2) @@
        ("- Finance: Budget approved, payback acceptable" :> 1) @@
        ("- HR: Training plan in place" :> 1),
    timelineSection |->
        ("# Timeline" :> 1),
    scopeSection |->
        ("# Scope" :> 1)]

\* the legacy tables (validator.js:78-122): an entry written as an entry of
\* another table is the regular expression object of that table
STAKEHOLDER_PATTERNS ==
  [stakeholderSection |->
        EXECUTION_PATTERNS.stakeholderSection,
    stakeholderLanguage |->
        ("Continue losing $50K annually. Risk: team burnout, customer churn." :> 1) @@
        ("- Owner: Jane Doe (responsible)" :> 2) @@
        ("- Lead: John Smith (accountable)" :> 2),
    roleDefinition |->
        ("- Owner: Jane Doe (responsible)" :> 1) @@
        ("- Lead: John Smith (accountable)" :> 1)]

TIMELINE_PATTERNS ==
  [timelineSection |->
        EXECUTION_PATTERNS.timelineSection,
    datePatterns |->
        ("Our customers struggle with manual data entry, causing 500+ hours wasted per month." :> 1) @@
        ("in lost productivity (source: Q3 Ops Report). Before: 500 hours. After: 100 hours target." :> 1) @@
        ("Partial automation, 40% reduction. Basic phase 1 only." :> 1) @@
        ("- Phase 1 (Q1): Design and prototype" :> 2) @@
        ("- Phase 2 (Q2): Development and testing" :> 2) @@
        ("- Milestone: Production launch by end of Q2" :> 2),
    phasing |->
        ("Partial automation, 40% reduction. Basic phase 1 only." :> 1) @@
        ("- Phase 1 (Q1): Design and prototype" :> 1) @@
        ("- Phase 2 (Q2): Development and testing" :> 1)]

SCOPE_PATTERNS ==
  [inScope |->
        ("In scope: we will build the design" :> 2),
    outOfScope |->
        ("Out of scope: future API work" :> 2) @@
        ("- Phase 2 (Q2): Development and testing" :> 1),
    scopeSection |->
        EXECUTION_PATTERNS.scopeSection]

METRICS_PATTERNS ==
  [smart |->
        ("Measurable target: reduce cost 20%" :> 1),
    quantified |->
        EVIDENCE_PATTERNS.quantified,
    metricsSection |->
        ("# Success Metrics" :> 1),
    metricsLanguage |->
        ("Baseline and target" :> 1) @@
        ("Measurable target: reduce cost 20%" :> 2) @@
        ("in lost productivity (source: Q3 Ops Report). Before: 500 hours. After: 100 hours target." :> 1)]

SOLUTION_PATTERNS ==
  [solutionSection |->
        ("# Solution" :> 1),
    solutionLanguage |->
        ("Alternative approach" :> 1) @@
        ("Solution" :> 1) @@
        ("# Solution" :> 1) @@
        ("In scope: we will build the design" :> 1) @@
        ("## Option 3: Full Solution ($30K) - RECOMMENDED" :> 1),
    measurable |->
        ("Baseline and target" :> 1) @@
        ("Measurable target: reduce cost 20%" :> 1) @@
        ("in lost productivity (source: Q3 Ops Report). Before: 500 hours. After: 100 hours target." :> 1),
    highlevel |->
        ("In scope: we will build the design" :> 1) @@
        ("# Executive Summary" :> 1) @@
        ("- Phase 1 (Q1): Design and prototype" :> 1),
    avoidImplementation |->
        ("Out of scope: future API work" :> 1)]

\* the regular expression literals inside detectCostOfInaction,
\* detectSolution and detectMeasurableGoals: new objects at every evaluation
InlinePatterns ==
  [costSection |->
        ("# Risks" :> 1),
    solutionSection |->
        SOLUTION_PATTERNS.solutionSection,
    solutionLanguage |->
        SOLUTION_PATTERNS.solutionLanguage,
    measurable |->
        SOLUTION_PATTERNS.measurable,
    highlevel |->
        SOLUTION_PATTERNS.highlevel,
    avoidImplementation |->
        SOLUTION_PATTERNS.avoidImplementation,
    goals |->
        ("- Annual benefit: $50K saved" :> 1) @@
        ("- Total: $45K vs $150K benefit" :> 1)]

REQUIRED_SECTIONS ==
  <<[pattern |->
        ("# Context" :> 1) @@
        ("# Problem" :> 1) @@
        ("## Problem" :> 1) @@
        ("# Problem Statement" :> 1),
      name |-> "Problem/Challenge", weight |-> 2],
    [pattern |->
        ("# Options" :> 1) @@
        ("# Options Analysis" :> 1) @@
        ("## Option 1: Do Nothing" :> 1) @@
        ("## Option 2: Minimal ($10K)" :> 1) @@
        ("## Option 3: Full Solution ($30K) - RECOMMENDED" :> 1),
      name |-> "Options Analysis", weight |-> 2],
    [pattern |->
        ("# Financial" :> 1) @@
        ("# Financial Justification" :> 1) @@
        ("## ROI Calculation" :> 1) @@
        ("## Payback Period" :> 1),
      name |-> "Financial Justification", weight |-> 2],
    [pattern |->
        ("# Solution" :> 1),
      name |-> "Solution/Proposal", weight |-> 2],
    [pattern |->
        ("# Scope" :> 1),
      name |-> "Scope Definition", weight |-> 1],
    [pattern |->
        ("# Stakeholders" :> 1),
      name |-> "Stakeholders/Team", weight |-> 1],
    [pattern |->
        ("# Risks" :> 1),
      name |-> "Risks/Mitigation", weight |-> 1],
    [pattern |->
        ("# Timeline" :> 1),
      name |-> "Timeline/Milestones", weight |-> 1]>>


(***************************************************************************)
(* Matching                                                                *)
(***************************************************************************)
LineMatches(pattern, line) ==
  IF line \in DOMAIN pattern THEN pattern[line] ELSE 0

RECURSIVE MatchCount(_, _)
\* (text.match(pattern) || []).length for a pattern with the g flag
MatchCount(lines, pattern) ==
  IF lines = <<>> THEN 0
  ELSE LineMatches(pattern, Head(lines)) + MatchCount(Tail(lines), pattern)

\* pattern.test(text) for a pattern without the g flag
Test(pattern, lines) ==
  \E i \in 1..Len(lines) : LineMatches(pattern, lines[i]) > 0

Min(a, b) == IF a < b THEN a ELSE b
Max(a, b) == IF a > b THEN a ELSE b

\* the regular expression of each required section, by the section's name
RequiredSectionPatterns ==
  [name \in {REQUIRED_SECTIONS[i].name : i \in DOMAIN REQUIRED_SECTIONS} |->
     LET i == CHOOSE j \in DOMAIN REQUIRED_SECTIONS :
                REQUIRED_SECTIONS[j].name = name
     IN REQUIRED_SECTIONS[i].pattern]

\* the regular expression objects of the library, by name; the object
\* METRICS_PATTERNS.quantified is EVIDENCE_PATTERNS.quantified, and the
\* stakeholder, timeline and scope headings are those of EXECUTION_PATTERNS
Patterns ==
  EVIDENCE_PATTERNS @@ FINANCIAL_PATTERNS @@ OPTIONS_PATTERNS
    @@ EXECUTION_PATTERNS @@ STAKEHOLDER_PATTERNS @@ TIMELINE_PATTERNS
    @@ SCOPE_PATTERNS @@ METRICS_PATTERNS @@ SOLUTION_PATTERNS
    @@ RequiredSectionPatterns

PatternNames == DOMAIN Patterns

\* the heading patterns, written /^#+.../im
SectionPatterns ==
  {"problemSection", "financialSection", "optionsSection",
   "executiveSummary", "risksSection", "stakeholderSection",
   "timelineSection", "scopeSection", "metricsSection", "solutionSection"}
    \cup DOMAIN RequiredSectionPatterns

\* PatternFlags with the g flag on the heading patterns as well
PatternFlags_globalSections ==
  [name \in PatternNames |->
     IF name \in SectionPatterns THEN {"g", "i", "m"} ELSE {"g", "i"}]

\* the flags each regular expression is written with
PatternFlags ==
  [name \in PatternNames |->
     IF name \in SectionPatterns THEN {"i", "m"} ELSE {"g", "i"}]

\* the lines after lastIndex in which the regular expression matches
MatchesFrom(name, lines) ==
  {i \in (lastIndex[name] + 1)..Len(lines) :
     LineMatches(Patterns[name], lines[i]) > 0}

\* RegExp.prototype.test: a regular expression with the g flag searches
\* from its lastIndex, one without it searches the whole text
RegExpTest(name, lines) ==
  IF "g" \in PatternFlags[name] THEN MatchesFrom(name, lines) # {}
  ELSE Test(Patterns[name], lines)

\* lastIndex after test: with the g flag the end of the match found, or 0
\* when there is none; without the g flag it is left alone
LastIndexAfterTest(name, lines) ==
  IF "g" \notin PatternFlags[name] THEN lastIndex[name]
  ELSE IF MatchesFrom(name, lines) = {} THEN 0
  ELSE CHOOSE i \in MatchesFrom(name, lines) :
         \A j \in MatchesFrom(name, lines) : i <= j

\* lastIndex after String.prototype.match: with the g flag the search
\* starts at 0 and ends, after the last match, at 0
LastIndexAfterMatch(name) ==
  IF "g" \in PatternFlags[name] THEN 0 ELSE lastIndex[name]

(***************************************************************************)
(* Detection functions                                                     *)
(***************************************************************************)
detectStrategicEvidence(lines) ==
  LET hasProblemSection == RegExpTest("problemSection", lines)
      problemMatches == MatchCount(lines, EVIDENCE_PATTERNS.problemLanguage)
      quantifiedMatches == MatchCount(lines, EVIDENCE_PATTERNS.quantified)
      businessMatches == MatchCount(lines, EVIDENCE_PATTERNS.businessFocus)
      sourceMatches == MatchCount(lines, EVIDENCE_PATTERNS.sources)
      beforeAfterMatches == MatchCount(lines, EVIDENCE_PATTERNS.beforeAfter)
  IN [hasProblemSection |-> hasProblemSection,
      hasProblemLanguage |-> problemMatches > 0,
      isQuantified |-> quantifiedMatches > 0,
      quantifiedCount |-> quantifiedMatches,
      hasBusinessFocus |-> businessMatches > 0,
      hasSources |-> sourceMatches > 0,
      sourceCount |-> sourceMatches,
      hasBeforeAfter |-> beforeAfterMatches > 0]

detectFinancialJustification(lines) ==
  LET hasFinancialSection == RegExpTest("financialSection", lines)
      roiMatches == MatchCount(lines, FINANCIAL_PATTERNS.roiCalculation)
      roiFormulaMatches == MatchCount(lines, FINANCIAL_PATTERNS.roiFormula)
      paybackMatches == MatchCount(lines, FINANCIAL_PATTERNS.paybackPeriod)
      paybackTimeMatches == MatchCount(lines, FINANCIAL_PATTERNS.paybackTime)
      tcoMatches == MatchCount(lines, FINANCIAL_PATTERNS.tcoAnalysis)
      dollarMatches == MatchCount(lines, FINANCIAL_PATTERNS.dollarAmounts)
  IN [hasFinancialSection |-> hasFinancialSection,
      hasROI |-> roiMatches > 0,
      hasROIFormula |-> roiFormulaMatches > 0,
      hasPayback |-> paybackMatches > 0,
      hasPaybackTime |-> paybackTimeMatches > 0,
      hasTCO |-> tcoMatches > 0,
      hasDollarAmounts |-> dollarMatches > 0,
      dollarCount |-> dollarMatches]

detectOptionsAnalysis(lines) ==
  LET hasOptionsSection == RegExpTest("optionsSection", lines)
      doNothingMatches == MatchCount(lines, OPTIONS_PATTERNS.doNothing)
      alternativeMatches == MatchCount(lines, OPTIONS_PATTERNS.alternatives)
      recommendationMatches == MatchCount(lines, OPTIONS_PATTERNS.recommendation)
      comparisonMatches == MatchCount(lines, OPTIONS_PATTERNS.comparison)
      minimalMatches == MatchCount(lines, OPTIONS_PATTERNS.minimalInvestment)
      fullMatches == MatchCount(lines, OPTIONS_PATTERNS.fullInvestment)
  IN [hasOptionsSection |-> hasOptionsSection,
      hasDoNothing |-> doNothingMatches > 0,
      doNothingCount |-> doNothingMatches,
      hasAlternatives |-> alternativeMatches > 0,
      alternativeCount |-> alternativeMatches,
      hasRecommendation |-> recommendationMatches > 0,
      hasComparison |-> comparisonMatches > 0,
      hasMinimalOption |-> minimalMatches > 0,
      hasFullOption |-> fullMatches > 0]

detectExecutionCompleteness(lines) ==
  LET hasExecSummary == RegExpTest("executiveSummary", lines)
      hasRisksSection == RegExpTest("risksSection", lines)
      riskMatches == MatchCount(lines, EXECUTION_PATTERNS.riskLanguage)
      hasStakeholderSection == RegExpTest("stakeholderSection", lines)
      stakeholderConcernMatches ==
        MatchCount(lines, EXECUTION_PATTERNS.stakeholderConcerns)
      hasTimelineSection == RegExpTest("timelineSection", lines)
      hasScopeSection == RegExpTest("scopeSection", lines)
  IN [hasExecSummary |-> hasExecSummary,
      hasRisksSection |-> hasRisksSection,
      hasRiskLanguage |-> riskMatches > 0,
      riskCount |-> riskMatches,
      hasStakeholderSection |-> hasStakeholderSection,
      hasStakeholderConcerns |-> stakeholderConcernMatches > 0,
      stakeholderConcernCount |-> stakeholderConcernMatches,
      hasTimelineSection |-> hasTimelineSection,
      hasScopeSection |-> hasScopeSection]

\* the non-empty entries of [cond && message, ...].filter(Boolean)
Indicators(entries) ==
  LET kept == SelectSeq(entries, LAMBDA e : e.cond)
  IN [i \in 1..Len(kept) |-> kept[i].message]

detectCostOfInaction(lines) ==
  LET costMatches == MatchCount(lines, OPTIONS_PATTERNS.doNothing)
      quantifiedMatches == MatchCount(lines, EVIDENCE_PATTERNS.quantified)
      hasCostSection == Test(InlinePatterns.costSection, lines)
  IN [hasCostLanguage |-> costMatches > 0,
      costCount |-> costMatches,
      isQuantified |-> quantifiedMatches > 0,
      quantifiedCount |-> quantifiedMatches,
      hasCostSection |-> hasCostSection,
      indicators |-> Indicators(
        <<[cond |-> costMatches > 0,
           message |-> ToString(costMatches) \o " cost/impact references"],
          [cond |-> quantifiedMatches > 0,
           message |-> ToString(quantifiedMatches) \o " quantified values"],
          [cond |-> hasCostSection, message |-> "Dedicated cost/impact section"]>>)]

detectSolution(lines) ==
  LET hasSolutionSection == Test(InlinePatterns.solutionSection, lines)
      solutionMatches == MatchCount(lines, InlinePatterns.solutionLanguage)
      measurableMatches == MatchCount(lines, InlinePatterns.measurable)
      highlevelMatches == MatchCount(lines, InlinePatterns.highlevel)
      implementationMatches ==
        MatchCount(lines, InlinePatterns.avoidImplementation)
  IN [hasSolutionSection |-> hasSolutionSection,
      hasSolutionLanguage |-> solutionMatches > 0,
      hasMeasurable |-> measurableMatches > 0,
      isHighLevel |-> highlevelMatches > 0 /\ implementationMatches = 0,
      hasImplementationDetails |-> implementationMatches > 0,
      indicators |-> Indicators(
        <<[cond |-> hasSolutionSection, message |-> "Dedicated solution section"],
          [cond |-> solutionMatches > 0, message |-> "Solution language present"],
          [cond |-> measurableMatches > 0,
           message |-> "Measurable outcomes mentioned"],
          [cond |-> highlevelMatches > 0,
           message |-> "High-level approach described"],
          [cond |-> implementationMatches = 0,
           message |-> "No implementation details (good)"]>>)]

\* quantifiedMatches is taken with SOLUTION_PATTERNS.measurable as well
detectMeasurableGoals(lines) ==
  LET measurableMatches == MatchCount(lines, SOLUTION_PATTERNS.measurable)
      quantifiedMatches == MatchCount(lines, SOLUTION_PATTERNS.measurable)
      goalMatches == MatchCount(lines, InlinePatterns.goals)
  IN [hasMeasurable |-> measurableMatches > 0,
      measurableCount |-> measurableMatches,
      hasQuantified |-> quantifiedMatches > 0,
      hasGoals |-> goalMatches > 0,
      goalCount |-> goalMatches,
      indicators |-> Indicators(
        <<[cond |-> measurableMatches > 0,
           message |-> ToString(measurableMatches) \o " measurable terms"],
          [cond |-> goalMatches > 0,
           message |-> ToString(goalMatches) \o " goal/objective mentions"],
          [cond |-> quantifiedMatches > 0,
           message |-> "Quantified metrics present"]>>)]

detectScope(lines) ==
  LET inScopeMatches == MatchCount(lines, SCOPE_PATTERNS.inScope)
      outOfScopeMatches == MatchCount(lines, SCOPE_PATTERNS.outOfScope)
      hasScopeSection == RegExpTest("scopeSection", lines)
  IN [hasInScope |-> inScopeMatches > 0,
      inScopeCount |-> inScopeMatches,
      hasOutOfScope |-> outOfScopeMatches > 0,
      outOfScopeCount |-> outOfScopeMatches,
      hasBothBoundaries |-> inScopeMatches > 0 /\ outOfScopeMatches > 0,
      hasScopeSection |-> hasScopeSection,
      indicators |-> Indicators(
        <<[cond |-> inScopeMatches > 0, message |-> "In-scope items defined"],
          [cond |-> outOfScopeMatches > 0,
           message |-> "Out-of-scope items defined"],
          [cond |-> hasScopeSection, message |-> "Dedicated scope section"]>>)]

detectSuccessMetrics(lines) ==
  LET smartMatches == MatchCount(lines, METRICS_PATTERNS.smart)
      quantifiedMatches == MatchCount(lines, METRICS_PATTERNS.quantified)
      metricsMatches == MatchCount(lines, METRICS_PATTERNS.metricsLanguage)
      hasMetricsSection == RegExpTest("metricsSection", lines)
  IN [hasMetricsSection |-> hasMetricsSection,
      hasSmart |-> smartMatches > 0,
      smartCount |-> smartMatches,
      hasQuantified |-> quantifiedMatches > 0,
      quantifiedCount |-> quantifiedMatches,
      hasMetrics |-> metricsMatches > 0,
      metricsCount |-> metricsMatches,
      indicators |-> Indicators(
        <<[cond |-> hasMetricsSection, message |-> "Dedicated metrics section"],
          [cond |-> smartMatches > 0, message |-> "SMART criteria mentioned"],
          [cond |-> quantifiedMatches > 0,
           message |-> ToString(quantifiedMatches) \o " quantified metrics"],
          [cond |-> metricsMatches > 0,
           message |-> ToString(metricsMatches) \o " metric references"]>>)]

detectStakeholders(lines) ==
  LET stakeholderMatches ==
        MatchCount(lines, STAKEHOLDER_PATTERNS.stakeholderLanguage)
      roleMatches == MatchCount(lines, STAKEHOLDER_PATTERNS.roleDefinition)
      hasStakeholderSection == RegExpTest("stakeholderSection", lines)
  IN [hasStakeholderSection |-> hasStakeholderSection,
      hasStakeholders |-> stakeholderMatches > 0,
      stakeholderCount |-> stakeholderMatches,
      hasRoles |-> roleMatches > 0,
      roleCount |-> roleMatches,
      indicators |-> Indicators(
        <<[cond |-> hasStakeholderSection,
           message |-> "Dedicated stakeholder section"],
          [cond |-> stakeholderMatches > 0,
           message |-> ToString(stakeholderMatches) \o " stakeholder references"],
          [cond |-> roleMatches > 0,
           message |-> "Roles/responsibilities defined"]>>)]

detectTimeline(lines) ==
  LET dateMatches == MatchCount(lines, TIMELINE_PATTERNS.datePatterns)
      phasingMatches == MatchCount(lines, TIMELINE_PATTERNS.phasing)
      hasTimelineSection == RegExpTest("timelineSection", lines)
  IN [hasTimelineSection |-> hasTimelineSection,
      hasTimeline |-> dateMatches > 0,
      dateCount |-> dateMatches,
      hasPhasing |-> phasingMatches > 0,
      phasingCount |-> phasingMatches,
      indicators |-> Indicators(
        <<[cond |-> hasTimelineSection,
           message |-> "Dedicated timeline section"],
          [cond |-> dateMatches > 0,
           message |-> ToString(dateMatches) \o " timeline references"],
          [cond |-> phasingMatches > 0,
           message |-> ToString(phasingMatches) \o " phases/milestones"]>>)]

\* { name: section.name, weight: section.weight } of the sections kept
SectionEntries(sections) ==
  [i \in 1..Len(sections) |->
     [name |-> sections[i].name, weight |-> sections[i].weight]]

detectSections(lines) ==
  [found |-> SectionEntries(SelectSeq(REQUIRED_SECTIONS,
               LAMBDA section : RegExpTest(section.name, lines))),
   missing |-> SectionEntries(SelectSeq(REQUIRED_SECTIONS,
               LAMBDA section : ~RegExpTest(section.name, lines)))]

\* Tested with detectSuccessMetrics asking METRICS_PATTERNS.quantified.test(text)
Tested_quantified ==
  [detectStrategicEvidence |-> {"problemSection"},
   detectFinancialJustification |-> {"financialSection"},
   detectOptionsAnalysis |-> {"optionsSection"},
   detectExecutionCompleteness |->
     {"executiveSummary", "risksSection", "stakeholderSection",
      "timelineSection", "scopeSection"},
   detectCostOfInaction |-> {},
   detectSolution |-> {},
   detectMeasurableGoals |-> {},
   detectScope |-> {"scopeSection"},
   detectSuccessMetrics |-> {"metricsSection", "quantified"},
   detectSections |-> DOMAIN RequiredSectionPatterns,
   detectStakeholders |-> {"stakeholderSection"},
   detectTimeline |-> {"timelineSection"}]

\* the regular expressions a detect function tests, and those it tests
\* before its first text.match
Tested ==
  [detectStrategicEvidence |-> {"problemSection"},
   detectFinancialJustification |-> {"financialSection"},
   detectOptionsAnalysis |-> {"optionsSection"},
   detectExecutionCompleteness |->
     {"executiveSummary", "risksSection", "stakeholderSection",
      "timelineSection", "scopeSection"},
   detectCostOfInaction |-> {},
   detectSolution |-> {},
   detectMeasurableGoals |-> {},
   detectScope |-> {"scopeSection"},
   detectSuccessMetrics |-> {"metricsSection"},
   detectSections |-> DOMAIN RequiredSectionPatterns,
   detectStakeholders |-> {"stakeholderSection"},
   detectTimeline |-> {"timelineSection"}]

TestedFirst ==
  [detectStrategicEvidence |-> {"problemSection"},
   detectFinancialJustification |-> {"financialSection"},
   detectOptionsAnalysis |-> {"optionsSection"},
   detectExecutionCompleteness |-> {"executiveSummary", "risksSection"},
   detectCostOfInaction |-> {},
   detectSolution |-> {},
   detectMeasurableGoals |-> {},
   detectScope |-> {},
   detectSuccessMetrics |-> {},
   detectSections |-> DOMAIN RequiredSectionPatterns,
   detectStakeholders |-> {},
   detectTimeline |-> {}]

\* the regular expressions a detect function passes to text.match
Matched ==
  [detectStrategicEvidence |-> DOMAIN EVIDENCE_PATTERNS \ SectionPatterns,
   detectFinancialJustification |-> DOMAIN FINANCIAL_PATTERNS \ SectionPatterns,
   detectOptionsAnalysis |-> DOMAIN OPTIONS_PATTERNS \ SectionPatterns,
   detectExecutionCompleteness |-> DOMAIN EXECUTION_PATTERNS \ SectionPatterns,
   detectCostOfInaction |-> {"doNothing", "quantified"},
   detectSolution |-> {},
   detectMeasurableGoals |-> {"measurable"},
   detectScope |-> {"inScope", "outOfScope"},
   detectSuccessMetrics |-> DOMAIN METRICS_PATTERNS \ SectionPatterns,
   detectSections |-> {},
   detectStakeholders |-> {"stakeholderLanguage", "roleDefinition"},
   detectTimeline |-> {"datePatterns", "phasing"}]

\* lastIndex of every regular expression after the detect functions ran
\* on a string
LastIndexAfter(detects, lines) ==
  [name \in PatternNames |->
     IF \E d \in detects : name \in Tested[d]
     THEN LastIndexAfterTest(name, lines)
     ELSE IF \E d \in detects : name \in Matched[d]
     THEN LastIndexAfterMatch(name)
     ELSE lastIndex[name]]

\* ... and after a detect function threw on a value without match: the
\* tests before the first text.match ran on the value's string form, which
\* has no heading
LastIndexAfterThrow(detect) ==
  [name \in PatternNames |->
     IF name \in TestedFirst[detect] /\ "g" \in PatternFlags[name]
     THEN 0 ELSE lastIndex[name]]

(***************************************************************************)
(* Scoring functions.  A tier is [points, strength, issue]: the points it  *)
(* adds and the message it pushes to strengths or to issues (<<>> when it  *)
(* pushes none).                                                           *)
(***************************************************************************)
Tier(points, strength, issue) ==
  [points |-> points, strengths |-> strength, issues |-> issue]

\* DimensionResult with score = points in place of score += points
DimensionResult_assign(t1, t2, t3, maxScore) ==
  [score |-> Min(t3.points, maxScore),
   maxScore |-> maxScore,
   issues |-> t1.issues \o t2.issues \o t3.issues,
   strengths |-> t1.strengths \o t2.strengths \o t3.strengths]

\* score += points; strengths.push(..)/issues.push(..) over the three
\* sub-criteria, then { score: Math.min(score, maxScore), maxScore, .. }
DimensionResult(t1, t2, t3, maxScore) ==
  [score |-> Min(t1.points + t2.points + t3.points, maxScore),
   maxScore |-> maxScore,
   issues |-> t1.issues \o t2.issues \o t3.issues,
   strengths |-> t1.strengths \o t2.strengths \o t3.strengths]

\* QuantifiedProblemTier with the best tier at more than 3 quantified tokens
QuantifiedProblemTier_gt3(evidence) ==
  IF evidence.hasProblemSection /\ evidence.isQuantified
       /\ evidence.quantifiedCount > 3
  THEN Tier(12, <<"Strong quantified problem statement ("
                   \o ToString(evidence.quantifiedCount) \o " metrics)">>, <<>>)
  ELSE IF evidence.hasProblemSection /\ evidence.isQuantified
  THEN Tier(8, <<>>,
            <<"Add more quantified metrics - aim for 80/20 quant/qual ratio">>)
  ELSE IF evidence.hasProblemLanguage
  THEN Tier(4, <<>>,
            <<"Problem statement lacks quantified data - add specific numbers">>)
  ELSE Tier(0, <<>>,
            <<"Problem statement missing or unclear - define with specific metrics">>)

\* QuantifiedProblemTier with the partial tier worth 3 points instead of 8
QuantifiedProblemTier_partial3(evidence) ==
  IF evidence.hasProblemSection /\ evidence.isQuantified
       /\ evidence.quantifiedCount >= 3
  THEN Tier(12, <<"Strong quantified problem statement ("
                   \o ToString(evidence.quantifiedCount) \o " metrics)">>, <<>>)
  ELSE IF evidence.hasProblemSection /\ evidence.isQuantified
  THEN Tier(3, <<>>,
            <<"Add more quantified metrics - aim for 80/20 quant/qual ratio">>)
  ELSE IF evidence.hasProblemLanguage
  THEN Tier(4, <<>>,
            <<"Problem statement lacks quantified data - add specific numbers">>)
  ELSE Tier(0, <<>>,
            <<"Problem statement missing or unclear - define with specific metrics">>)

\* validator.js:478-490  Problem statement with quantified metrics (0-12 pts)
QuantifiedProblemTier(evidence) ==
  IF evidence.hasProblemSection /\ evidence.isQuantified
       /\ evidence.quantifiedCount >= 3
  THEN Tier(12, <<"Strong quantified problem statement ("
                   \o ToString(evidence.quantifiedCount) \o " metrics)">>, <<>>)
  ELSE IF evidence.hasProblemSection /\ evidence.isQuantified
  THEN Tier(8, <<>>,
            <<"Add more quantified metrics - aim for 80/20 quant/qual ratio">>)
  ELSE IF evidence.hasProblemLanguage
  THEN Tier(4, <<>>,
            <<"Problem statement lacks quantified data - add specific numbers">>)
  ELSE Tier(0, <<>>,
            <<"Problem statement missing or unclear - define with specific metrics">>)

\* SourcesTier with the best tier at three matches instead of two
SourcesTier_ge3(evidence) ==
  IF evidence.hasSources /\ evidence.sourceCount >= 3
  THEN Tier(10, <<ToString(evidence.sourceCount) \o " credible sources cited">>,
            <<>>)
  ELSE IF evidence.hasSources
  THEN Tier(5, <<>>,
            <<"Add more sources - cite industry benchmarks or internal data with dates">>)
  ELSE Tier(0, <<>>,
            <<"No sources cited - add Gartner, Forrester, internal data, or other benchmarks">>)

\* validator.js:492-501  Credible sources cited (0-10 pts)
SourcesTier(evidence) ==
  IF evidence.hasSources /\ evidence.sourceCount >= 2
  THEN Tier(10, <<ToString(evidence.sourceCount) \o " credible sources cited">>,
            <<>>)
  ELSE IF evidence.hasSources
  THEN Tier(5, <<>>,
            <<"Add more sources - cite industry benchmarks or internal data with dates">>)
  ELSE Tier(0, <<>>,
            <<"No sources cited - add Gartner, Forrester, internal data, or other benchmarks">>)

\* BusinessFocusTier with the middle tier granted for either signal
BusinessFocusTier_either(evidence) ==
  IF evidence.hasBusinessFocus /\ evidence.hasBeforeAfter
  THEN Tier(8, <<"Clear business focus with before/after comparison">>, <<>>)
  ELSE IF evidence.hasBusinessFocus \/ evidence.hasBeforeAfter
  THEN Tier(4, <<>>,
            <<"Add before/after comparison to show baseline vs target">>)
  ELSE Tier(0, <<>>,
            <<"Strengthen business/customer focus - explain why this matters to stakeholders">>)

\* validator.js:503-512  Business/customer focus with before/after (0-8 pts)
BusinessFocusTier(evidence) ==
  IF evidence.hasBusinessFocus /\ evidence.hasBeforeAfter
  THEN Tier(8, <<"Clear business focus with before/after comparison">>, <<>>)
  ELSE IF evidence.hasBusinessFocus
  THEN Tier(4, <<>>,
            <<"Add before/after comparison to show baseline vs target">>)
  ELSE Tier(0, <<>>,
            <<"Strengthen business/customer focus - explain why this matters to stakeholders">>)

StrategicEvidenceTiers(lines) ==
  LET evidence == detectStrategicEvidence(lines)
  IN <<QuantifiedProblemTier(evidence), SourcesTier(evidence),
       BusinessFocusTier(evidence)>>

\* scoreStrategicEvidence with the maxScore of another pillar
scoreStrategicEvidence_max25(lines) ==
  LET t == StrategicEvidenceTiers(lines)
  IN DimensionResult(t[1], t[2], t[3], 25)

scoreStrategicEvidence(lines) ==
  LET t == StrategicEvidenceTiers(lines)
  IN DimensionResult(t[1], t[2], t[3], 30)

\* ROITier that awards the best tier on the formula alone
ROITier_formulaOnly(financial) ==
  IF financial.hasROIFormula
  THEN Tier(10, <<"ROI calculation with explicit formula">>, <<>>)
  ELSE IF financial.hasROI
  THEN Tier(5, <<>>,
            <<"ROI mentioned but missing explicit formula - use (Benefit - Cost) / Cost x 100">>)
  ELSE Tier(0, <<>>,
            <<"ROI calculation missing - add return on investment analysis">>)

\* validator.js:531-540  ROI calculation with explicit formula (0-10 pts)
\* (the multiplication sign of the issue text is written x)
ROITier(financial) ==
  IF financial.hasROI /\ financial.hasROIFormula
  THEN Tier(10, <<"ROI calculation with explicit formula">>, <<>>)
  ELSE IF financial.hasROI
  THEN Tier(5, <<>>,
            <<"ROI mentioned but missing explicit formula - use (Benefit - Cost) / Cost x 100">>)
  ELSE Tier(0, <<>>,
            <<"ROI calculation missing - add return on investment analysis">>)

\* validator.js:542-551  Payback period stated (0-8 pts)
PaybackTier(financial) ==
  IF financial.hasPayback /\ financial.hasPaybackTime
  THEN Tier(8, <<"Payback period specified with timeline">>, <<>>)
  ELSE IF financial.hasPayback
  THEN Tier(4, <<>>,
            <<"Payback period mentioned but no specific timeline - target <12 months">>)
  ELSE Tier(0, <<>>,
            <<"Payback period missing - state time to recoup investment">>)

\* TCOTier with the middle tier granted for a dollar amount without a TCO cue
TCOTier_anyDollar(financial) ==
  IF financial.hasTCO /\ financial.hasDollarAmounts
  THEN Tier(7, <<"TCO analysis with dollar amounts">>, <<>>)
  ELSE IF financial.hasTCO \/ financial.hasDollarAmounts
  THEN Tier(4, <<>>, <<"TCO mentioned but lacks specific dollar amounts">>)
  ELSE Tier(0, <<>>,
            <<"TCO missing - add 3-year view including implementation, training, ops costs">>)

\* validator.js:553-562  3-year TCO analysis (0-7 pts)
TCOTier(financial) ==
  IF financial.hasTCO /\ financial.hasDollarAmounts
  THEN Tier(7, <<"TCO analysis with dollar amounts">>, <<>>)
  ELSE IF financial.hasTCO
  THEN Tier(4, <<>>, <<"TCO mentioned but lacks specific dollar amounts">>)
  ELSE Tier(0, <<>>,
            <<"TCO missing - add 3-year view including implementation, training, ops costs">>)

FinancialJustificationTiers(lines) ==
  LET financial == detectFinancialJustification(lines)
  IN <<ROITier(financial), PaybackTier(financial), TCOTier(financial)>>

scoreFinancialJustification(lines) ==
  LET t == FinancialJustificationTiers(lines)
  IN DimensionResult(t[1], t[2], t[3], 25)

\* DoNothingTier with the best tier at more than 2 matches
DoNothingTier_gt2(options) ==
  IF options.hasDoNothing /\ options.doNothingCount > 2
  THEN Tier(10, <<"Do-nothing scenario thoroughly analyzed">>, <<>>)
  ELSE IF options.hasDoNothing
  THEN Tier(6, <<>>,
            <<"Do-nothing scenario mentioned - quantify the cost/risk of inaction">>)
  ELSE Tier(0, <<>>,
            <<"Do-nothing scenario missing - explain what happens if we do nothing">>)

\* validator.js:581-590  Do-nothing scenario quantified (0-10 pts)
DoNothingTier(options) ==
  IF options.hasDoNothing /\ options.doNothingCount >= 2
  THEN Tier(10, <<"Do-nothing scenario thoroughly analyzed">>, <<>>)
  ELSE IF options.hasDoNothing
  THEN Tier(6, <<>>,
            <<"Do-nothing scenario mentioned - quantify the cost/risk of inaction">>)
  ELSE Tier(0, <<>>,
            <<"Do-nothing scenario missing - explain what happens if we do nothing">>)

\* AlternativesTier that asks for a minimal and a full investment option
AlternativesTier_bothLabels(options) ==
  LET hasInvestmentOption == options.hasMinimalOption /\ options.hasFullOption
  IN IF options.hasAlternatives /\ options.alternativeCount >= 3
          /\ hasInvestmentOption
     THEN Tier(10, <<ToString(options.alternativeCount)
                      \o " alternatives analyzed with investment options">>, <<>>)
     ELSE IF options.hasAlternatives /\ options.alternativeCount >= 2
     THEN Tier(6, <<>>, <<"Add minimal or full investment option as alternative">>)
     ELSE IF options.hasAlternatives
     THEN Tier(3, <<>>,
               <<"Only one alternative - add at least 3 options (do-nothing, minimal, full)">>)
     ELSE Tier(0, <<>>, <<"Alternatives missing - analyze at least 3 options">>)

\* validator.js:592-606  Multiple alternatives considered (0-10 pts)
AlternativesTier(options) ==
  LET hasInvestmentOption == options.hasMinimalOption \/ options.hasFullOption
  IN IF options.hasAlternatives /\ options.alternativeCount >= 3
          /\ hasInvestmentOption
     THEN Tier(10, <<ToString(options.alternativeCount)
                      \o " alternatives analyzed with investment options">>, <<>>)
     ELSE IF options.hasAlternatives /\ options.alternativeCount >= 2
     THEN Tier(6, <<>>, <<"Add minimal or full investment option as alternative">>)
     ELSE IF options.hasAlternatives
     THEN Tier(3, <<>>,
               <<"Only one alternative - add at least 3 options (do-nothing, minimal, full)">>)
     ELSE Tier(0, <<>>, <<"Alternatives missing - analyze at least 3 options">>)

\* RecommendationTier worth 10 points like the two sub-criteria before it
RecommendationTier_10(options) ==
  IF options.hasRecommendation /\ options.hasComparison
  THEN Tier(10, <<"Clear recommendation with trade-off analysis">>, <<>>)
  ELSE IF options.hasRecommendation
  THEN Tier(3, <<>>, <<"Recommendation present - add pros/cons comparison">>)
  ELSE Tier(0, <<>>, <<"Recommendation missing - state which option and why">>)

\* validator.js:608-617  Clear recommendation with comparison (0-5 pts)
RecommendationTier(options) ==
  IF options.hasRecommendation /\ options.hasComparison
  THEN Tier(5, <<"Clear recommendation with trade-off analysis">>, <<>>)
  ELSE IF options.hasRecommendation
  THEN Tier(3, <<>>, <<"Recommendation present - add pros/cons comparison">>)
  ELSE Tier(0, <<>>, <<"Recommendation missing - state which option and why">>)

OptionsAnalysisTiers(lines) ==
  LET options == detectOptionsAnalysis(lines)
  IN <<DoNothingTier(options), AlternativesTier(options),
       RecommendationTier(options)>>

scoreOptionsAnalysis(lines) ==
  LET t == OptionsAnalysisTiers(lines)
  IN DimensionResult(t[1], t[2], t[3], 25)

\* ExecSummaryTier that reports nothing when the summary is missing
ExecSummaryTier_silent(execution) ==
  IF execution.hasExecSummary
  THEN Tier(6, <<"Executive summary present">>, <<>>)
  ELSE Tier(0, <<>>, <<>>)

\* validator.js:636-642  Executive summary present and complete (0-6 pts)
ExecSummaryTier(execution) ==
  IF execution.hasExecSummary
  THEN Tier(6, <<"Executive summary present">>, <<>>)
  ELSE Tier(0, <<>>,
            <<"Executive summary missing - add TL;DR readable in 30 seconds">>)

\* RisksTier with the best tier at more than three risk-lexicon matches
RisksTier_gt3(execution) ==
  IF execution.hasRisksSection /\ execution.hasRiskLanguage
       /\ execution.riskCount > 3
  THEN Tier(7, <<ToString(execution.riskCount)
                  \o " risks identified with mitigation strategies">>, <<>>)
  ELSE IF execution.hasRisksSection
  THEN Tier(4, <<>>,
            <<"Risks section present - add more risks with mitigation strategies">>)
  ELSE Tier(0, <<>>,
            <<"Risks section missing - identify risks and mitigation strategies">>)

\* validator.js:644-653  Risks identified with mitigation (0-7 pts)
RisksTier(execution) ==
  IF execution.hasRisksSection /\ execution.hasRiskLanguage
       /\ execution.riskCount >= 3
  THEN Tier(7, <<ToString(execution.riskCount)
                  \o " risks identified with mitigation strategies">>, <<>>)
  ELSE IF execution.hasRisksSection
  THEN Tier(4, <<>>,
            <<"Risks section present - add more risks with mitigation strategies">>)
  ELSE Tier(0, <<>>,
            <<"Risks section missing - identify risks and mitigation strategies">>)

\* StakeholdersTier with the middle tier granted for concerns without a heading
StakeholdersTier_concernsAlone(execution) ==
  IF execution.hasStakeholderSection /\ execution.hasStakeholderConcerns
  THEN Tier(7, <<"Stakeholder concerns (Finance/HR/Legal) addressed">>, <<>>)
  ELSE IF execution.hasStakeholderSection \/ execution.hasStakeholderConcerns
  THEN Tier(4, <<>>,
            <<"Stakeholders identified - address Finance, HR, Legal concerns">>)
  ELSE Tier(0, <<>>,
            <<"Stakeholder section missing - identify and address stakeholder concerns">>)

\* validator.js:655-664  Stakeholder concerns addressed (0-7 pts)
StakeholdersTier(execution) ==
  IF execution.hasStakeholderSection /\ execution.hasStakeholderConcerns
  THEN Tier(7, <<"Stakeholder concerns (Finance/HR/Legal) addressed">>, <<>>)
  ELSE IF execution.hasStakeholderSection
  THEN Tier(4, <<>>,
            <<"Stakeholders identified - address Finance, HR, Legal concerns">>)
  ELSE Tier(0, <<>>,
            <<"Stakeholder section missing - identify and address stakeholder concerns">>)

ExecutionCompletenessTiers(lines) ==
  LET execution == detectExecutionCompleteness(lines)
  IN <<ExecSummaryTier(execution), RisksTier(execution),
       StakeholdersTier(execution)>>

scoreExecutionCompleteness(lines) ==
  LET t == ExecutionCompletenessTiers(lines)
  IN DimensionResult(t[1], t[2], t[3], 20)

(***************************************************************************)
(* validateOnePager (validator.js:701-765)                                 *)
(***************************************************************************)
\* a JavaScript value passed as text: a string (its lines), null, undefined
\* or a number
String(lines) == [type |-> "string", lines |-> lines]
Null == [type |-> "null", lines |-> <<>>]
Undefined == [type |-> "undefined", lines |-> <<>>]
Number42 == [type |-> "number", lines |-> <<>>]

\* IsNoContent without the falsy test: typeof text !== 'string' only
IsNoContent_typeofOnly(t) == t.type # "string"

\* !text || typeof text !== 'string'
IsNoContent(t) ==
  \/ t.type \in {"null", "undefined"}
  \/ (t.type = "string" /\ t.lines = <<>>)
  \/ t.type # "string"

NoContent(maxScore) ==
  [score |-> 0, maxScore |-> maxScore,
   issues |-> <<"No content to validate">>, strengths |-> <<>>]

NoContentReport ==
  [totalScore |-> 0,
   strategicEvidence |-> NoContent(30),
   financialJustification |-> NoContent(25),
   optionsAnalysis |-> NoContent(25),
   executionCompleteness |-> NoContent(20),
   problemClarity |-> NoContent(30),
   solution |-> NoContent(25),
   scope |-> NoContent(25),
   completeness |-> NoContent(20)]

\* SlopDeduction without the cap
SlopDeduction_uncapped(penalty) ==
  IF penalty > 0 THEN (penalty * 6) \div 10 ELSE 0

\* Math.min(5, Math.floor(slopPenalty.penalty * 0.6)) when penalty > 0
SlopDeduction(penalty) ==
  IF penalty > 0 THEN Min(5, (penalty * 6) \div 10) ELSE 0

\* SlopIssues that pushes every issue of the detector
SlopIssues_all(slop) ==
  IF slop.penalty > 0 /\ Len(slop.issues) > 0
  THEN slop.issues
  ELSE <<>>

\* slopIssues.push(...slopPenalty.issues.slice(0, 2)) when penalty > 0
SlopIssues(slop) ==
  IF slop.penalty > 0 /\ Len(slop.issues) > 0
  THEN SubSeq(slop.issues, 1, Min(2, Len(slop.issues)))
  ELSE <<>>

\* TotalScore without the clamp at 0
TotalScore_unclamped(se, fj, oa, ec, slopDeduction) ==
  se.score + fj.score + oa.score + ec.score - slopDeduction

\* TotalScore that forgets the deduction
TotalScore_noDeduction(se, fj, oa, ec, slopDeduction) ==
  Max(0, se.score + fj.score + oa.score + ec.score)

TotalScore(se, fj, oa, ec, slopDeduction) ==
  Max(0, se.score + fj.score + oa.score + ec.score - slopDeduction)

\* the report of the scored branch, from the values of its five calls
Report(se, fj, oa, ec, slop) ==
  LET strategicEvidence == se
      financialJustification == fj
      optionsAnalysis == oa
      executionCompleteness == ec
      slopDeduction == SlopDeduction(slop.penalty)
  IN [totalScore |-> TotalScore(strategicEvidence, financialJustification,
                                optionsAnalysis, executionCompleteness,
                                slopDeduction),
      strategicEvidence |-> strategicEvidence,
      financialJustification |-> financialJustification,
      optionsAnalysis |-> optionsAnalysis,
      executionCompleteness |-> executionCompleteness,
      problemClarity |-> strategicEvidence,
      solution |-> financialJustification,
      scope |-> optionsAnalysis,
      completeness |-> executionCompleteness,
      dimension1 |-> strategicEvidence,
      dimension2 |-> financialJustification,
      dimension3 |-> optionsAnalysis,
      dimension4 |-> executionCompleteness,
      slopDetection |-> [penalty |-> slop.penalty,
                         deduction |-> slopDeduction,
                         issues |-> SlopIssues(slop)]]

ScoredReport(lines, slop) ==
  Report(scoreStrategicEvidence(lines), scoreFinancialJustification(lines),
         scoreOptionsAnalysis(lines), scoreExecutionCompleteness(lines), slop)

validateOnePager(t, slop) ==
  IF IsNoContent(t) THEN NoContentReport ELSE ScoredReport(t.lines, slop)

(***************************************************************************)
(* Legacy aliases (validator.js:268-271, 669-684)                          *)
(***************************************************************************)
detectProblemStatement(lines) == detectStrategicEvidence(lines)

scoreProblemClarity(lines) == scoreStrategicEvidence(lines)

\* scoreSolutionQuality forwarding to the options scorer
scoreSolutionQuality_options(lines) == scoreOptionsAnalysis(lines)

scoreSolutionQuality(lines) == scoreFinancialJustification(lines)

scoreScopeDiscipline(lines) == scoreOptionsAnalysis(lines)

scoreCompleteness(lines) == scoreExecutionCompleteness(lines)

(***************************************************************************)
(* The slop detector getSlopPenalty of ./slop-detection.js is an injected  *)
(* collaborator: it returns { penalty: number >= 0, issues: string[] }.    *)
(***************************************************************************)
SlopResults ==
  {[penalty |-> p, issues |-> [i \in 1..n |-> "slop issue " \o ToString(i)]] :
     p \in 0..MaxPenalty, n \in 0..MaxSlopIssues}

(***************************************************************************)
(* Inputs                                                                  *)
(***************************************************************************)
LinesOver(vocab) == UNION {[1..n -> vocab] : n \in 0..MaxLines}

\* documents that carry no, some and all signals of one pillar
SampleEvidence ==
  {<<>>, <<"# Context", "We lose 40% annually">>,
   <<"# Problem", "40% of 200 users lose 10 hours", "According to Gartner",
     "Customer wait time", "Baseline and target">>}

SampleFinancial ==
  {<<>>, <<"Best ROI", "Payback expected">>,
   <<"# Financial", "ROI: 150%", "Payback expected", "Within 6 months",
     "TCO reviewed", "Cost is $5,000 total">>}

SampleOptions ==
  {<<>>, <<"# Options", "Option A">>,
   <<"Do nothing", "Option A", "One alternative", "One alternative",
     "Full investment", "We recommend this", "Trade-off analysis">>}

SampleExecution ==
  {<<>>, <<"# Risks", "Key risk">>,
   <<"# Executive Summary", "# Risks",
     "Timeline risk with mitigation and contingency", "# Stakeholders",
     "Finance approval">>}

\* documents with a part for each pillar
SampleDocuments ==
  {a \o b \o c \o d : a \in SampleEvidence, b \in SampleFinancial,
                        c \in SampleOptions, d \in SampleExecution}

Documents ==
  LinesOver(VocabEvidence) \cup LinesOver(VocabFinancial)
    \cup LinesOver(VocabOptions) \cup LinesOver(VocabExecution)
    \cup LinesOver(VocabSections) \cup LinesOver(VocabLegacy)
    \cup SampleDocuments \cup {GoodDocument}

Inputs == {String(d) : d \in Documents} \cup {Null, Undefined, Number42}

(***************************************************************************)
(* State machine: one call of an exported function per step; the caller    *)
(* consumes the returned value and discards it before the next call.       *)
(***************************************************************************)
\* the increments score += n of the scorers that ran, per dimension
Points(tiers) == <<tiers[1].points, tiers[2].points, tiers[3].points>>

NoAwards == [d \in {} |-> <<>>]

ValidateAwards(lines) ==
  [strategicEvidence |-> Points(StrategicEvidenceTiers(lines)),
   financialJustification |-> Points(FinancialJustificationTiers(lines)),
   optionsAnalysis |-> Points(OptionsAnalysisTiers(lines)),
   executionCompleteness |-> Points(ExecutionCompletenessTiers(lines))]

NoResult == [none |-> TRUE]
TypeError == [error |-> "TypeError"]
NotCalled == [called |-> FALSE, penalty |-> 0, issues |-> <<>>]
Called(slop) == [called |-> TRUE, penalty |-> slop.penalty, issues |-> slop.issues]

DetectCalls(detect) == {detect, "RegExp.test", "String.match"}

ScorerCalls ==
  {"scoreStrategicEvidence", "scoreFinancialJustification",
   "scoreOptionsAnalysis", "scoreExecutionCompleteness"}

ValidateCalls ==
  ScorerCalls \cup {"getSlopPenalty"}
    \cup DetectCalls("detectStrategicEvidence")
    \cup DetectCalls("detectFinancialJustification")
    \cup DetectCalls("detectOptionsAnalysis")
    \cup DetectCalls("detectExecutionCompleteness")

\* the values returned so far to a run that makes its calls step by step
NoPartial == [task \in {} |-> NoResult]

\* the five calls of the scored branch (validator.js:718-724)
Tasks ==
  {"strategicEvidence", "financialJustification", "optionsAnalysis",
   "executionCompleteness", "slopPenalty"}

ScorerTasks == Tasks \ {"slopPenalty"}

DetectOf ==
  [strategicEvidence |-> "detectStrategicEvidence",
   financialJustification |-> "detectFinancialJustification",
   optionsAnalysis |-> "detectOptionsAnalysis",
   executionCompleteness |-> "detectExecutionCompleteness"]

TiersOf(task, lines) ==
  CASE task = "strategicEvidence" -> StrategicEvidenceTiers(lines)
    [] task = "financialJustification" -> FinancialJustificationTiers(lines)
    [] task = "optionsAnalysis" -> OptionsAnalysisTiers(lines)
    [] task = "executionCompleteness" -> ExecutionCompletenessTiers(lines)

MaxScoreOf ==
  [strategicEvidence |-> 30, financialJustification |-> 25,
   optionsAnalysis |-> 25, executionCompleteness |-> 20]

\* the records the detect functions can return, whatever the document:
\* every combination of headings found and match counts
EvidenceResults ==
  {[hasProblemSection |-> section,
    hasProblemLanguage |-> language,
    isQuantified |-> quantified > 0,
    quantifiedCount |-> quantified,
    hasBusinessFocus |-> business,
    hasSources |-> sources > 0,
    sourceCount |-> sources,
    hasBeforeAfter |-> beforeAfter] :
     section \in BOOLEAN, language \in BOOLEAN, quantified \in 0..MaxCount,
     business \in BOOLEAN, sources \in 0..MaxCount, beforeAfter \in BOOLEAN}

FinancialResults ==
  {[hasFinancialSection |-> section,
    hasROI |-> roi,
    hasROIFormula |-> formula,
    hasPayback |-> payback,
    hasPaybackTime |-> time,
    hasTCO |-> tco,
    hasDollarAmounts |-> dollars > 0,
    dollarCount |-> dollars] :
     section \in BOOLEAN, roi \in BOOLEAN, formula \in BOOLEAN,
     payback \in BOOLEAN, time \in BOOLEAN, tco \in BOOLEAN,
     dollars \in 0..MaxCount}

OptionsResults ==
  {[hasOptionsSection |-> section,
    hasDoNothing |-> doNothing > 0,
    doNothingCount |-> doNothing,
    hasAlternatives |-> alternatives > 0,
    alternativeCount |-> alternatives,
    hasRecommendation |-> recommendation,
    hasComparison |-> comparison,
    hasMinimalOption |-> minimal,
    hasFullOption |-> full] :
     section \in BOOLEAN, doNothing \in 0..MaxCount,
     alternatives \in 0..MaxCount, recommendation \in BOOLEAN,
     comparison \in BOOLEAN, minimal \in BOOLEAN, full \in BOOLEAN}

ExecutionResults ==
  {[hasExecSummary |-> summary,
    hasRisksSection |-> risksSection,
    hasRiskLanguage |-> risks > 0,
    riskCount |-> risks,
    hasStakeholderSection |-> stakeholderSection,
    hasStakeholderConcerns |-> concerns > 0,
    stakeholderConcernCount |-> concerns,
    hasTimelineSection |-> timeline,
    hasScopeSection |-> scope] :
     summary \in BOOLEAN, risksSection \in BOOLEAN, risks \in 0..MaxCount,
     stakeholderSection \in BOOLEAN, concerns \in 0..MaxCount,
     timeline \in BOOLEAN, scope \in BOOLEAN}

\* the increments score += n of a scorer, for each record its detect
\* function can return
TierPoints ==
  [strategicEvidence |->
     {Points(<<QuantifiedProblemTier(e), SourcesTier(e), BusinessFocusTier(e)>>) :
        e \in EvidenceResults},
   financialJustification |->
     {Points(<<ROITier(f), PaybackTier(f), TCOTier(f)>>) : f \in FinancialResults},
   optionsAnalysis |->
     {Points(<<DoNothingTier(o), AlternativesTier(o), RecommendationTier(o)>>) :
        o \in OptionsResults},
   executionCompleteness |->
     {Points(<<ExecSummaryTier(x), RisksTier(x), StakeholdersTier(x)>>) :
        x \in ExecutionResults}]

\* Locals with score declared once for the module: a scorer starts from
\* the largest score returned so far
Locals_shared(returned) ==
  [score |-> IF DOMAIN returned \cap ScorerTasks = {} THEN 0
             ELSE CHOOSE s \in {returned[t].score : t \in DOMAIN returned \cap ScorerTasks} :
                    \A t \in DOMAIN returned \cap ScorerTasks : returned[t].score <= s,
   issues |-> <<>>, strengths |-> <<>>]

\* const issues = []; const strengths = []; let score = 0: what a scorer
\* starts from, whatever the calls before it returned
Locals(returned) == [score |-> 0, issues |-> <<>>, strengths |-> <<>>]

\* the body of a scorer from its locals on
Accumulate(locals, tiers, maxScore) ==
  [score |-> Min(locals.score + tiers[1].points + tiers[2].points
                   + tiers[3].points, maxScore),
   maxScore |-> maxScore,
   issues |-> locals.issues \o tiers[1].issues \o tiers[2].issues
                \o tiers[3].issues,
   strengths |-> locals.strengths \o tiers[1].strengths
                   \o tiers[2].strengths \o tiers[3].strengths]

(***************************************************************************)
(* The LLM scoring prompts.  A rubric is the dimension names, their        *)
(* maxima and the points of the sub-criteria, listed in the order of the   *)
(* validator's sub-criteria: problem data, sources, before/after; ROI,     *)
(* payback, TCO; do-nothing, alternatives, recommendation; summary, risks, *)
(* stakeholders.                                                           *)
(***************************************************************************)
\* validator/js/prompts.js
ValidatorPromptRubric ==
  [names |-> <<"Strategic Evidence", "Financial Justification",
               "Options & Alternatives", "Execution Completeness">>,
   maxima |-> <<30, 25, 25, 20>>,
   subCriteria |-> <<<<12, 10, 8>>, <<10, 8, 7>>, <<10, 10, 5>>, <<6, 7, 7>>>>]

\* the second prompt module (unnamed/part_002)
AssistantPromptRubric ==
  [names |-> <<"Evidence Quality", "ROI/Financial Clarity",
               "Options Analysis", "Completeness">>,
   maxima |-> <<30, 25, 25, 20>>,
   subCriteria |-> <<<<12, 10, 8>>, <<10, 8, 7>>, <<8, 10, 7>>, <<7, 7, 6>>>>]

PromptRubrics ==
  [validator |-> ValidatorPromptRubric, assistant |-> AssistantPromptRubric]

\* generateLLMScoringPrompt: the rubric and the document it embeds
generateLLMScoringPrompt(generator, justificationContent) ==
  [generator |-> generator, rubric |-> PromptRubrics[generator],
   content |-> justificationContent]

\* the validator's own taxonomy: the names of its header, the maxScore of
\* its scorers and the best tier of each sub-criterion
ValidatorRubric ==
  LET best == CHOOSE d \in SampleDocuments :
                \A e \in SampleDocuments : Len(e) <= Len(d)
  IN [names |-> <<"Strategic Evidence", "Financial Justification",
                  "Options & Alternatives", "Execution Completeness">>,
      maxima |-> <<scoreStrategicEvidence(best).maxScore,
                   scoreFinancialJustification(best).maxScore,
                   scoreOptionsAnalysis(best).maxScore,
                   scoreExecutionCompleteness(best).maxScore>>,
      subCriteria |-> <<Points(StrategicEvidenceTiers(best)),
                        Points(FinancialJustificationTiers(best)),
                        Points(OptionsAnalysisTiers(best)),
                        Points(ExecutionCompletenessTiers(best))>>]

(***************************************************************************)
(* Document templates (js/document-specific-templates.js)                  *)
(***************************************************************************)
\* the keys of the object literal, in the order they are written
TemplateKeys ==
  <<"blank", "headcountRequest", "promotionRequest", "budgetOpexRequest",
    "roleReclassification", "optionsComparison">>

TemplateNames ==
  <<"Blank", "Headcount Request", "Promotion Request", "Budget/Opex Request",
    "Role Reclassification", "Options Comparison">>

\* the own properties of DOCUMENT_TEMPLATES: id and display name of each
DOCUMENT_TEMPLATES ==
  [key \in {TemplateKeys[i] : i \in DOMAIN TemplateKeys} |->
     LET i == CHOOSE j \in DOMAIN TemplateKeys : TemplateKeys[j] = key
     IN [id |-> key, name |-> TemplateNames[i]]]

\* the properties an object literal inherits from Object.prototype
ObjectPrototype ==
  {"constructor", "toString", "toLocaleString", "valueOf", "hasOwnProperty",
   "isPrototypeOf", "propertyIsEnumerable", "__proto__"}

JsUndefined == [undefined |-> TRUE]
JsNull == [null |-> TRUE]

\* object[key]: the own property, else the inherited one, else undefined
GetProperty(key) ==
  IF key \in DOMAIN DOCUMENT_TEMPLATES THEN DOCUMENT_TEMPLATES[key]
  ELSE IF key \in ObjectPrototype THEN [inherited |-> key]
  ELSE JsUndefined

\* return DOCUMENT_TEMPLATES[templateId] || null
getTemplate(templateId) ==
  IF GetProperty(templateId) # JsUndefined THEN GetProperty(templateId)
  ELSE JsNull

\* Object.values(DOCUMENT_TEMPLATES): the own enumerable values in key order
getAllTemplates ==
  [i \in DOMAIN TemplateKeys |-> DOCUMENT_TEMPLATES[TemplateKeys[i]]]

\* arguments of getTemplate: the six ids, ids of no template and names of
\* inherited properties
TemplateIds ==
  DOMAIN DOCUMENT_TEMPLATES
    \cup {"", "unknown", "Blank", "undefined", "constructor", "toString"}

Init ==
  /\ text \in Inputs
  /\ op = "idle"
  /\ result = NoResult
  /\ slopPenalty = NotCalled
  /\ calls = {}
  /\ awards = NoAwards
  /\ lastIndex = [name \in PatternNames |-> 0]
  /\ partialResults = NoPartial

ValidateOnePager ==
  /\ op = "idle"
  /\ \E slop \in SlopResults :
       /\ result' = validateOnePager(text, slop)
       /\ slopPenalty' = IF IsNoContent(text) THEN NotCalled ELSE Called(slop)
  /\ calls' = IF IsNoContent(text) THEN {} ELSE ValidateCalls
  /\ awards' = IF IsNoContent(text) THEN NoAwards
               ELSE ValidateAwards(text.lines)
  /\ lastIndex' = IF IsNoContent(text) THEN lastIndex
                  ELSE LastIndexAfter({DetectOf[task] : task \in ScorerTasks}, text.lines)
  /\ op' = "validateOnePager"
  /\ UNCHANGED <<text, partialResults>>

\* CallScorer with the no-content answer of validateOnePager for a value
\* that is no string
CallScorer_noContent(name, dimension, detect, scored, tiers) ==
  /\ op = "idle"
  /\ result' = IF text.type = "string" THEN scored
               ELSE NoContent(MaxScoreOf[dimension])
  /\ awards' = IF text.type = "string"
               THEN (dimension :> Points(tiers)) ELSE NoAwards
  /\ calls' = {name} \cup DetectCalls(detect)
  /\ lastIndex' = IF text.type = "string"
                  THEN LastIndexAfter({detect}, text.lines)
                  ELSE LastIndexAfterThrow(detect)
  /\ op' = name
  /\ UNCHANGED <<text, slopPenalty, partialResults>>

\* a scorer called directly: text.match throws on a value that is no string
CallScorer(name, dimension, detect, scored, tiers) ==
  /\ op = "idle"
  /\ result' = IF text.type = "string" THEN scored ELSE TypeError
  /\ awards' = IF text.type = "string"
               THEN (dimension :> Points(tiers)) ELSE NoAwards
  /\ calls' = {name} \cup DetectCalls(detect)
  /\ lastIndex' = IF text.type = "string"
                  THEN LastIndexAfter({detect}, text.lines)
                  ELSE LastIndexAfterThrow(detect)
  /\ op' = name
  /\ UNCHANGED <<text, slopPenalty, partialResults>>

ScoreStrategicEvidence ==
  CallScorer("scoreStrategicEvidence", "strategicEvidence", "detectStrategicEvidence",
             scoreStrategicEvidence(text.lines), StrategicEvidenceTiers(text.lines))

ScoreFinancialJustification ==
  CallScorer("scoreFinancialJustification", "financialJustification", "detectFinancialJustification",
             scoreFinancialJustification(text.lines), FinancialJustificationTiers(text.lines))

ScoreOptionsAnalysis ==
  CallScorer("scoreOptionsAnalysis", "optionsAnalysis", "detectOptionsAnalysis",
             scoreOptionsAnalysis(text.lines), OptionsAnalysisTiers(text.lines))

ScoreExecutionCompleteness ==
  CallScorer("scoreExecutionCompleteness", "executionCompleteness", "detectExecutionCompleteness",
             scoreExecutionCompleteness(text.lines), ExecutionCompletenessTiers(text.lines))

\* the legacy aliases
ScoreProblemClarity ==
  CallScorer("scoreProblemClarity", "strategicEvidence", "detectStrategicEvidence",
             scoreProblemClarity(text.lines), StrategicEvidenceTiers(text.lines))

ScoreSolutionQuality ==
  CallScorer("scoreSolutionQuality", "financialJustification", "detectFinancialJustification",
             scoreSolutionQuality(text.lines), FinancialJustificationTiers(text.lines))

ScoreScopeDiscipline ==
  CallScorer("scoreScopeDiscipline", "optionsAnalysis", "detectOptionsAnalysis",
             scoreScopeDiscipline(text.lines), OptionsAnalysisTiers(text.lines))

ScoreCompleteness ==
  CallScorer("scoreCompleteness", "executionCompleteness", "detectExecutionCompleteness",
             scoreCompleteness(text.lines), ExecutionCompletenessTiers(text.lines))

\* a detect function called directly
CallDetect(name, detect, detected) ==
  /\ op = "idle"
  /\ result' = IF text.type = "string" THEN detected ELSE TypeError
  /\ calls' = {name} \cup DetectCalls(detect)
  /\ lastIndex' = IF text.type = "string"
                  THEN LastIndexAfter({detect}, text.lines)
                  ELSE LastIndexAfterThrow(detect)
  /\ op' = name
  /\ UNCHANGED <<text, slopPenalty, awards, partialResults>>

DetectStrategicEvidence ==
  CallDetect("detectStrategicEvidence", "detectStrategicEvidence",
             detectStrategicEvidence(text.lines))

DetectFinancialJustification ==
  CallDetect("detectFinancialJustification", "detectFinancialJustification",
             detectFinancialJustification(text.lines))

DetectOptionsAnalysis ==
  CallDetect("detectOptionsAnalysis", "detectOptionsAnalysis",
             detectOptionsAnalysis(text.lines))

DetectExecutionCompleteness ==
  CallDetect("detectExecutionCompleteness", "detectExecutionCompleteness",
             detectExecutionCompleteness(text.lines))

DetectProblemStatement ==
  CallDetect("detectProblemStatement", "detectStrategicEvidence",
             detectProblemStatement(text.lines))

\* the legacy detect functions
DetectCostOfInaction ==
  CallDetect("detectCostOfInaction", "detectCostOfInaction",
             detectCostOfInaction(text.lines))

DetectSolution ==
  CallDetect("detectSolution", "detectSolution", detectSolution(text.lines))

DetectMeasurableGoals ==
  CallDetect("detectMeasurableGoals", "detectMeasurableGoals",
             detectMeasurableGoals(text.lines))

DetectScope ==
  CallDetect("detectScope", "detectScope", detectScope(text.lines))

DetectStakeholders ==
  CallDetect("detectStakeholders", "detectStakeholders",
             detectStakeholders(text.lines))

DetectTimeline ==
  CallDetect("detectTimeline", "detectTimeline", detectTimeline(text.lines))

DetectSuccessMetrics ==
  CallDetect("detectSuccessMetrics", "detectSuccessMetrics",
             detectSuccessMetrics(text.lines))

\* the lines of String(value), which pattern.test(value) searches
ToStringLines(t) ==
  CASE t.type = "string" -> t.lines
    [] t.type = "null" -> <<"null">>
    [] t.type = "undefined" -> <<"undefined">>
    [] t.type = "number" -> <<"42">>

\* detectSections has no text.match: it answers for any value
DetectSections ==
  /\ op = "idle"
  /\ result' = detectSections(ToStringLines(text))
  /\ calls' = {"detectSections", "RegExp.test"}
  /\ lastIndex' = LastIndexAfter({"detectSections"}, ToStringLines(text))
  /\ op' = "detectSections"
  /\ UNCHANGED <<text, slopPenalty, awards, partialResults>>

GetTemplate ==
  /\ op = "idle"
  /\ \E templateId \in TemplateIds :
       result' = [templateId |-> templateId, value |-> getTemplate(templateId)]
  /\ op' = "getTemplate"
  /\ UNCHANGED <<text, slopPenalty, calls, awards, lastIndex, partialResults>>

GetAllTemplates ==
  /\ op = "idle"
  /\ result' = getAllTemplates
  /\ op' = "getAllTemplates"
  /\ UNCHANGED <<text, slopPenalty, calls, awards, lastIndex, partialResults>>

\* either prompt module builds its scoring prompt for the document
GenerateLLMScoringPrompt ==
  /\ op = "idle"
  /\ \E generator \in DOMAIN PromptRubrics :
       result' = generateLLMScoringPrompt(generator, text)
  /\ op' = "generateLLMScoringPrompt"
  /\ UNCHANGED <<text, slopPenalty, calls, awards, lastIndex, partialResults>>

\* The scored branch of validateOnePager taken one call at a time, the five
\* calls in any order: a scorer returns its dimension result ...
RunScorer(task) ==
  /\ op \in {"idle", "validating"}
  /\ ~IsNoContent(text)
  /\ text.lines \in SampleDocuments
  /\ task \notin DOMAIN partialResults
  /\ partialResults' = partialResults @@
       (task :> Accumulate(Locals(partialResults), TiersOf(task, text.lines),
                           MaxScoreOf[task]))
  /\ lastIndex' = LastIndexAfter({DetectOf[task]}, text.lines)
  /\ op' = "validating"
  /\ UNCHANGED <<text, result, slopPenalty, calls, awards>>

\* ... the slop detector returns its penalty ...
RunSlopDetector ==
  /\ op \in {"idle", "validating"}
  /\ ~IsNoContent(text)
  /\ text.lines \in SampleDocuments
  /\ "slopPenalty" \notin DOMAIN partialResults
  /\ \E slop \in SlopResults : partialResults' = partialResults @@ ("slopPenalty" :> slop)
  /\ op' = "validating"
  /\ UNCHANGED <<text, result, slopPenalty, calls, awards, lastIndex>>

\* ... and the report is built once the five values are there
ReturnReport ==
  /\ op = "validating"
  /\ DOMAIN partialResults = Tasks
  /\ result' = Report(partialResults.strategicEvidence, partialResults.financialJustification,
                      partialResults.optionsAnalysis, partialResults.executionCompleteness,
                      partialResults.slopPenalty)
  /\ slopPenalty' = Called(partialResults.slopPenalty)
  /\ op' = "validateOnePager in any order"
  /\ UNCHANGED <<text, calls, awards, lastIndex, partialResults>>

Discard ==
  /\ op # "idle"
  /\ op' = "idle"
  /\ result' = NoResult
  /\ slopPenalty' = NotCalled
  /\ calls' = {}
  /\ awards' = NoAwards
  /\ partialResults' = NoPartial
  /\ UNCHANGED <<text, lastIndex>>

Next ==
  \/ ValidateOnePager
  \/ ScoreStrategicEvidence
  \/ ScoreFinancialJustification
  \/ ScoreOptionsAnalysis
  \/ ScoreExecutionCompleteness
  \/ ScoreProblemClarity
  \/ ScoreSolutionQuality
  \/ ScoreScopeDiscipline
  \/ ScoreCompleteness
  \/ DetectStrategicEvidence
  \/ DetectFinancialJustification
  \/ DetectOptionsAnalysis
  \/ DetectExecutionCompleteness
  \/ DetectProblemStatement
  \/ DetectCostOfInaction
  \/ DetectSolution
  \/ DetectMeasurableGoals
  \/ DetectScope
  \/ DetectSuccessMetrics
  \/ DetectStakeholders
  \/ DetectTimeline
  \/ DetectSections
  \/ GetTemplate
  \/ GetAllTemplates
  \/ GenerateLLMScoringPrompt
  \/ \E task \in ScorerTasks : RunScorer(task)
  \/ RunSlopDetector
  \/ ReturnReport
  \/ Discard

Spec == Init /\ [][Next]_vars

(***************************************************************************)
(* Properties                                                              *)
(***************************************************************************)
Validated == op = "validateOnePager"

\* the input is null, undefined, a non-string or the empty string
EmptyOrNonString == text.type # "string" \/ text.lines = <<>>

\* validateOnePager returned for a non-empty string document
ValidatedDocument == Validated /\ ~EmptyOrNonString

\* the scorer of the dimension ran on a string, directly or in validateOnePager
Ran(dimension) == dimension \in DOMAIN awards

\* the number of matches of a pattern in the input document
Matches(pattern) == MatchCount(text.lines, pattern)

\* C1: for every input, null, undefined, the empty string and non-strings
\* included, and every slop penalty >= 0, the totalScore that
\* validateOnePager returns is an integer between 0 and 100.
C1_TotalScoreInRange ==
  Validated => result.totalScore \in 0..100

\* C1 witness: a document with every signal scores 100 without slop
C1_Witness ==
  ValidatedDocument /\ result.totalScore = 100 /\ slopPenalty.penalty = 0

\* C2: for every non-empty string document, totalScore is the sum of the
\* four dimension scores of the report minus its slop deduction, clamped
\* at 0.
C2_TotalIsSumMinusDeduction ==
  ValidatedDocument =>
    result.totalScore =
      Max(0, result.strategicEvidence.score
               + result.financialJustification.score
               + result.optionsAnalysis.score
               + result.executionCompleteness.score
               - result.slopDetection.deduction)

\* C2 witness: a report whose deduction lowers a positive sum
C2_Witness ==
  /\ ValidatedDocument
  /\ result.slopDetection.deduction = 3
  /\ result.totalScore = 47

\* the maxScore each scorer is to return
C3_MaxScoreOf ==
  [scoreStrategicEvidence |-> 30, scoreFinancialJustification |-> 25,
   scoreOptionsAnalysis |-> 25, scoreExecutionCompleteness |-> 20]

\* C3: every DimensionResult of the four scorers, the empty string
\* included, has an integer score between 0 and maxScore, and maxScore is
\* 30, 25, 25 and 20, which sum to 100.
C3_DimensionScoreInRange ==
  /\ (op \in DOMAIN C3_MaxScoreOf /\ text.type = "string") =>
        /\ result.maxScore = C3_MaxScoreOf[op]
        /\ result.score \in 0..result.maxScore
  /\ ValidatedDocument =>
        /\ result.strategicEvidence.maxScore = 30
        /\ result.financialJustification.maxScore = 25
        /\ result.optionsAnalysis.maxScore = 25
        /\ result.executionCompleteness.maxScore = 20
        /\ \A d \in {result.strategicEvidence, result.financialJustification,
                      result.optionsAnalysis, result.executionCompleteness} :
             d.score \in 0..d.maxScore
  /\ C3_MaxScoreOf.scoreStrategicEvidence
       + C3_MaxScoreOf.scoreFinancialJustification
       + C3_MaxScoreOf.scoreOptionsAnalysis
       + C3_MaxScoreOf.scoreExecutionCompleteness = 100

\* C3 witness: scoreStrategicEvidence reached its maximum on a document
C3_Witness ==
  op = "scoreStrategicEvidence" /\ text.type = "string" /\ result.score = 30

\* the DimensionResult of a dimension without content
C4_Sentinel(maxScore) ==
  [score |-> 0, maxScore |-> maxScore,
   issues |-> <<"No content to validate">>, strengths |-> <<>>]

\* C4: for null, undefined, the empty string or a non-string,
\* validateOnePager returns totalScore 0 and, per dimension, score 0, the
\* fixed maxScore, no strengths and the single issue 'No content to
\* validate', and calls no scorer, no pattern matcher and no slop detector.
C4_NoContentReport ==
  (Validated /\ EmptyOrNonString) =>
    /\ result.totalScore = 0
    /\ result.strategicEvidence = C4_Sentinel(30)
    /\ result.financialJustification = C4_Sentinel(25)
    /\ result.optionsAnalysis = C4_Sentinel(25)
    /\ result.executionCompleteness = C4_Sentinel(20)
    /\ calls = {}
    /\ ~slopPenalty.called

\* C4 witness: validateOnePager returned for the empty string
C4_Witness ==
  /\ Validated
  /\ text.type = "string" /\ text.lines = <<>>
  /\ result.totalScore = 0

\* C5: for every accepted input, the empty string, null and undefined
\* included, the report of validateOnePager has a slopDetection sub-report
\* with the fields penalty, deduction and issues.
C5_SlopDetectionPresent ==
  Validated =>
    /\ "slopDetection" \in DOMAIN result
    /\ {"penalty", "deduction", "issues"} \subseteq DOMAIN result.slopDetection

\* C6: for every non-empty document the deduction is 0 when the detector's
\* penalty is not positive and min(5, floor(0.6 * penalty)) otherwise, so
\* it is an integer in 0..5 however large the penalty.
C6_DeductionFormula ==
  ValidatedDocument =>
    /\ slopPenalty.called
    /\ result.slopDetection.deduction \in 0..5
    /\ result.slopDetection.deduction =
         IF slopPenalty.penalty <= 0 THEN 0
         ELSE Min(5, (6 * slopPenalty.penalty) \div 10)

\* C6 witness: the cap binds, floor(0.6 * penalty) being more than 5
C6_Witness ==
  /\ ValidatedDocument
  /\ (6 * slopPenalty.penalty) \div 10 > 5
  /\ result.slopDetection.deduction = 5

\* C7 (as stated): the ROI sub-criterion is awarded 10 whenever the
\* ROI-formula pattern is detected, with or without an ROI keyword, and 5
\* when ROI is mentioned without a formula match.
C7_Original ==
  Ran("financialJustification") =>
    /\ Matches(FINANCIAL_PATTERNS.roiFormula) > 0 =>
         awards.financialJustification[1] = 10
    /\ (Matches(FINANCIAL_PATTERNS.roiCalculation) > 0
          /\ Matches(FINANCIAL_PATTERNS.roiFormula) = 0) =>
         awards.financialJustification[1] = 5

\* C7 (amended): the ROI sub-criterion is awarded 10 when an ROI keyword
\* and the ROI-formula pattern are both detected, 5 when ROI is mentioned
\* without a formula match, and 0 when no ROI keyword is detected, also
\* when the formula pattern matches.
C7_ROIAward ==
  Ran("financialJustification") =>
    awards.financialJustification[1] =
      IF Matches(FINANCIAL_PATTERNS.roiCalculation) = 0 THEN 0
      ELSE IF Matches(FINANCIAL_PATTERNS.roiFormula) > 0 THEN 10
      ELSE 5

\* C7 witness: the literal formula without an ROI keyword earns nothing
C7_Witness ==
  /\ op = "scoreFinancialJustification"
  /\ text = String(<<"(100000 - 50000) / 50000 = 100%">>)
  /\ awards.financialJustification[1] = 0
  /\ result.score = 0

C9_HasLabel ==
  \/ Matches(OPTIONS_PATTERNS.minimalInvestment) > 0
  \/ Matches(OPTIONS_PATTERNS.fullInvestment) > 0

C10_Heading == Test(EVIDENCE_PATTERNS.problemSection, text.lines)

C10_TierConditions ==
  LET q == Matches(EVIDENCE_PATTERNS.quantified)
      best == C10_Heading /\ q >= 3
      partial == C10_Heading /\ q \in {1, 2}
      weak == ~best /\ ~partial /\ Matches(EVIDENCE_PATTERNS.problemLanguage) > 0
      absent == ~best /\ ~partial /\ ~weak
  IN <<best, partial, weak, absent>>

SourceTerms ==
  ("According to Gartner" :> {"according to", "gartner"})
    @@ ("A recent survey" :> {"survey"})

\* the distinct source terms of a document
DistinctSources(lines) ==
  UNION {IF lines[i] \in DOMAIN SourceTerms THEN SourceTerms[lines[i]] ELSE {}
           : i \in 1..Len(lines)}

C14_Score ==
  IF op = "validateOnePager" THEN result.executionCompleteness.score
  ELSE result.score

C14_Signals ==
  [summary |-> Test(EXECUTION_PATTERNS.executiveSummary, text.lines),
   risksHeading |-> Test(EXECUTION_PATTERNS.risksSection, text.lines),
   risks |-> Matches(EXECUTION_PATTERNS.riskLanguage),
   stakeholderHeading |-> Test(EXECUTION_PATTERNS.stakeholderSection, text.lines),
   concerns |-> Matches(EXECUTION_PATTERNS.stakeholderConcerns)]

C16_QuantifiedOnly ==
  {l \in VocabEvidence \cup VocabFinancial :
     /\ LineMatches(EVIDENCE_PATTERNS.quantified, l) > 0
     /\ \A p \in {"problemSection", "problemLanguage", "sources",
                  "businessFocus", "beforeAfter"} :
          LineMatches(EVIDENCE_PATTERNS[p], l) = 0}

\* the document with one more line at position i + 1
C16_Insert(lines, i, l) ==
  SubSeq(lines, 1, i) \o <<l>> \o SubSeq(lines, i + 1, Len(lines))

\* C16: for a document without a quantified token, adding quantified tokens
\* with every other strategic-evidence signal unchanged never lowers the
\* strategic-evidence score.
C16_QuantifiedMonotone ==
  (op = "scoreStrategicEvidence" /\ Ran("strategicEvidence")
     /\ Matches(EVIDENCE_PATTERNS.quantified) = 0) =>
    \A l \in C16_QuantifiedOnly : \A i \in 0..Len(text.lines) :
      /\ scoreStrategicEvidence(C16_Insert(text.lines, i, l)).score
           >= result.score
      /\ \A k \in C16_QuantifiedOnly :
           scoreStrategicEvidence(C16_Insert(text.lines, i, l) \o <<k>>).score
             >= result.score

\* C16 witness: a problem heading with problem-framing language scores 4
\* for the problem statement and 8 once a quantified token is added
C16_Witness ==
  /\ op = "scoreStrategicEvidence"
  /\ Ran("strategicEvidence")
  /\ Matches(EVIDENCE_PATTERNS.quantified) = 0
  /\ C10_Heading
  /\ awards.strategicEvidence[1] = 4
  /\ scoreStrategicEvidence(text.lines \o <<"We lose 40% annually">>).score
       = result.score + 4

\* ------------------------------------------------------------------
\* Repeated calls, order of the calls, prompts, legacy aliases
\* ------------------------------------------------------------------

\* what the call that just returned returns when it is made again now, on
\* the same document and with the same answer of the slop detector
C17_CalledAgain ==
  IF op = "validateOnePager"
  THEN validateOnePager(text, [penalty |-> slopPenalty.penalty,
                               issues |-> slopPenalty.issues])
  ELSE IF text.type # "string" THEN TypeError
  ELSE CASE op \in {"scoreStrategicEvidence", "scoreProblemClarity"} ->
              scoreStrategicEvidence(text.lines)
         [] op \in {"scoreFinancialJustification", "scoreSolutionQuality"} ->
              scoreFinancialJustification(text.lines)
         [] op \in {"scoreOptionsAnalysis", "scoreScopeDiscipline"} ->
              scoreOptionsAnalysis(text.lines)
         [] op \in {"scoreExecutionCompleteness", "scoreCompleteness"} ->
              scoreExecutionCompleteness(text.lines)
         [] op \in {"detectStrategicEvidence", "detectProblemStatement"} ->
              detectStrategicEvidence(text.lines)
         [] op = "detectFinancialJustification" ->
              detectFinancialJustification(text.lines)
         [] op = "detectOptionsAnalysis" -> detectOptionsAnalysis(text.lines)
         [] op = "detectExecutionCompleteness" ->
              detectExecutionCompleteness(text.lines)

C17_Calls ==
  {"validateOnePager", "scoreStrategicEvidence", "scoreFinancialJustification",
   "scoreOptionsAnalysis", "scoreExecutionCompleteness", "scoreProblemClarity",
   "scoreSolutionQuality", "scoreScopeDiscipline", "scoreCompleteness",
   "detectStrategicEvidence", "detectFinancialJustification",
   "detectOptionsAnalysis", "detectExecutionCompleteness",
   "detectProblemStatement"}

C18_OrderIndependent ==
  op = "validateOnePager in any order" =>
    result = validateOnePager(text, partialResults.slopPenalty)

\* C18 witness: a run in some order ended on a document on which at least
\* two scorers award points and the detector deducts
C18_Witness ==
  /\ op = "validateOnePager in any order"
  /\ result.strategicEvidence.score > 0
  /\ result.executionCompleteness.score > 0
  /\ result.slopDetection.deduction > 0
  /\ result.totalScore = result.strategicEvidence.score
       + result.financialJustification.score + result.optionsAnalysis.score
       + result.executionCompleteness.score - result.slopDetection.deduction

\* C19: every LLM scoring prompt generator uses the validator's four
\* dimension names and maxima and gives the twelve sub-criteria the points
\* of the validator's best tiers (12/10/8, 10/8/7, 10/10/5, 6/7/7).
C19_PromptsUseValidatorRubric ==
  op = "generateLLMScoringPrompt" => result.rubric = ValidatorRubric

\* C20: each legacy function returns what the function it replaces returns
\* on the same input, a thrown TypeError included.
C20_LegacyAliases ==
  LET replaced(scored) == IF text.type = "string" THEN scored ELSE TypeError
  IN /\ op = "scoreProblemClarity" =>
          result = replaced(scoreStrategicEvidence(text.lines))
     /\ op = "scoreSolutionQuality" =>
          result = replaced(scoreFinancialJustification(text.lines))
     /\ op = "scoreScopeDiscipline" =>
          result = replaced(scoreOptionsAnalysis(text.lines))
     /\ op = "scoreCompleteness" =>
          result = replaced(scoreExecutionCompleteness(text.lines))
     /\ op = "detectProblemStatement" =>
          result = replaced(detectStrategicEvidence(text.lines))

\* C20 witness: scoreSolutionQuality returned the financial result of a
\* document whose options result differs
C20_Witness ==
  /\ op = "scoreSolutionQuality"
  /\ text.type = "string"
  /\ result.score > 0
  /\ result = scoreFinancialJustification(text.lines)
  /\ result # scoreOptionsAnalysis(text.lines)

(***************************************************************************)
(* Required sections, documented points and the well-structured fixture    *)
(***************************************************************************)
\* the lines that begin with a keyword of a section, with or without
\* leading '#' characters: /^(#+\s*)?(keywords)/i
C21_KeywordLines ==
  ("Problem/Challenge" :>
     {"# Context", "# Problem", "Problem", "## Problem",
      "# Problem Statement"}) @@
  ("Solution/Proposal" :> {"Solution", "# Solution"}) @@
  ("Financial Justification" :>
     {"# Financial", "ROI: 150%", "Payback expected", "TCO reviewed",
      "Financial Justification", "# Financial Justification",
      "## ROI Calculation", "## Payback Period"}) @@
  ("Options Analysis" :>
     {"# Options", "Option A", "Alternative approach", "Options Analysis",
      "# Options Analysis", "## Option 1: Do Nothing",
      "## Option 2: Minimal ($10K)",
      "## Option 3: Full Solution ($30K) - RECOMMENDED"})

C21_Found(section) ==
  \E i \in DOMAIN result.found : result.found[i].name = section

\* C21: detectSections reports Problem/Challenge, Solution/Proposal,
\* Financial Justification or Options Analysis in found whenever some line
\* of the document begins with one of the section's keywords, with or
\* without leading '#' characters.
C21_PlainHeadingsFound ==
  (op = "detectSections" /\ text.type = "string") =>
    \A section \in DOMAIN C21_KeywordLines :
      (\E i \in DOMAIN text.lines :
         text.lines[i] \in C21_KeywordLines[section]) => C21_Found(section)

\* C22: the validator awards the points docs/Scoring_Methods.md lists:
\* 5 for a do-nothing scenario that is only mentioned, 8 for a risks
\* section with mitigation, 4 for risks without mitigation and 6 for
\* stakeholder concerns addressed.
C22_DocumentedPoints ==
  /\ (Ran("optionsAnalysis") /\ Matches(OPTIONS_PATTERNS.doNothing) = 1)
       => awards.optionsAnalysis[1] = 5
  /\ Ran("executionCompleteness") =>
       /\ (C14_Signals.risksHeading /\ C14_Signals.risks >= 3)
            => awards.executionCompleteness[2] = 8
       /\ (C14_Signals.risksHeading /\ C14_Signals.risks < 3)
            => awards.executionCompleteness[2] = 4
       /\ (C14_Signals.stakeholderHeading /\ C14_Signals.concerns > 0)
            => awards.executionCompleteness[3] = 6

\* C23: for the well-structured fixture of validator-inline.test.js the
\* report has totalScore > 60 and a Strategic Evidence score > 15, whatever
\* the slop detector answers.
C23_GoodFixtureScores ==
  (Validated /\ text = String(GoodDocument)) =>
    /\ result.totalScore > 60
    /\ result.strategicEvidence.score > 15

\* C23 witness: the fixture scored under the largest deduction
C23_Witness ==
  /\ Validated
  /\ text = String(GoodDocument)
  /\ result.slopDetection.deduction = 5
  /\ result.strategicEvidence.score = 30
  /\ result.totalScore = 86

C24_Sum(points) == points[1] + points[2] + points[3]

\* the DimensionResult of a dimension whose scorer ran
C24_Result(dimension) == IF Validated THEN result[dimension] ELSE result

\* C24: in each of the four scorers the tier awards sum to at most
\* maxScore, for the document scored and for every record the detect
\* function can return, so Math.min(score, maxScore) leaves the sum as it is.
C24_ClampNeverBinds ==
  \A dimension \in DOMAIN awards :
    /\ C24_Sum(awards[dimension]) <= C24_Result(dimension).maxScore
    /\ C24_Result(dimension).score = C24_Sum(awards[dimension])
    /\ \A points \in TierPoints[dimension] :
         C24_Sum(points) <= C24_Result(dimension).maxScore

\* C24 witness: the awards of a scorer sum to maxScore exactly
C24_Witness ==
  /\ op = "scoreOptionsAnalysis"
  /\ Ran("optionsAnalysis")
  /\ awards.optionsAnalysis = <<10, 10, 5>>
  /\ result.score = 25
  /\ result.maxScore = 25

\* C25: no detect, score or validateOnePager call modifies the pattern
\* tables: every regular expression of the library, the quantified object
\* that EVIDENCE_PATTERNS and METRICS_PATTERNS share included, has
\* lastIndex 0 before and after every call.
C25_PatternsUnmodified ==
  [][\A name \in PatternNames :
       lastIndex[name] = 0 /\ lastIndex'[name] = 0]_vars

\* C25 witness: detectSuccessMetrics has matched the shared quantified
\* pattern and tested its heading pattern
C25_Witness ==
  /\ op = "detectSuccessMetrics"
  /\ result # TypeError
  /\ result.hasMetricsSection
  /\ result.quantifiedCount > 0
  /\ METRICS_PATTERNS.quantified = EVIDENCE_PATTERNS.quantified
  /\ lastIndex["quantified"] = 0

\* the best tier of each sub-criterion (validator.js:480, 494, 508, ...)
C26_BestTier ==
  [strategicEvidence |-> <<12, 10, 8>>,
   financialJustification |-> <<10, 8, 7>>,
   optionsAnalysis |-> <<10, 10, 5>>,
   executionCompleteness |-> <<6, 7, 7>>]

\* C26: every DimensionResult of a string document carries exactly three
\* messages, one per sub-criterion: a strength when the sub-criterion
\* reaches its best tier and an issue otherwise; hence score = maxScore
\* exactly when issues is empty.
C26_ThreeMessages ==
  \A dimension \in DOMAIN awards :
    LET dimensionResult == C24_Result(dimension)
        tiers == TiersOf(dimension, text.lines)
    IN /\ Len(dimensionResult.issues) + Len(dimensionResult.strengths) = 3
       /\ dimensionResult.issues =
            tiers[1].issues \o tiers[2].issues \o tiers[3].issues
       /\ dimensionResult.strengths =
            tiers[1].strengths \o tiers[2].strengths \o tiers[3].strengths
       /\ \A i \in 1..3 :
            /\ Len(tiers[i].issues) + Len(tiers[i].strengths) = 1
            /\ tiers[i].points = awards[dimension][i]
            /\ (tiers[i].strengths # <<>>) <=>
                 (awards[dimension][i] = C26_BestTier[dimension][i])
       /\ (dimensionResult.score = dimensionResult.maxScore) <=>
            (dimensionResult.issues = <<>>)

\* C26 witness: a financial score of 25 with three strengths and no issue
C26_Witness ==
  /\ op = "scoreFinancialJustification"
  /\ Ran("financialJustification")
  /\ result.score = result.maxScore
  /\ result.issues = <<>>
  /\ Len(result.strengths) = 3

\* C26 witness of the other side: two issues and one strength
C26_WitnessMixed ==
  /\ op = "scoreExecutionCompleteness"
  /\ Ran("executionCompleteness")
  /\ Len(result.issues) = 2
  /\ Len(result.strengths) = 1
  /\ result.score < result.maxScore

\* the fields a report must carry beside totalScore, and the dimension
\* each of them names
C27_Aliases ==
  [problemClarity |-> "strategicEvidence",
   solution |-> "financialJustification",
   scope |-> "optionsAnalysis",
   completeness |-> "executionCompleteness",
   dimension1 |-> "strategicEvidence",
   dimension2 |-> "financialJustification",
   dimension3 |-> "optionsAnalysis",
   dimension4 |-> "executionCompleteness"]

\* C27: in every report of validateOnePager, of a document and of no
\* content alike, the legacy fields problemClarity, solution, scope and
\* completeness and the fields dimension1..dimension4 are present and equal
\* the four dimension results.
C27_AliasFieldsPresent ==
  Validated =>
    \A field \in DOMAIN C27_Aliases :
      /\ field \in DOMAIN result
      /\ result[field] = result[C27_Aliases[field]]

\* C28: for a non-empty document slopDetection.issues is the first two (or
\* fewer) issues of the detector, in order, and empty when the penalty is
\* not positive; slopDetection.penalty is the detector's penalty; the
\* detector's list is as the detector returned it.
C28_SlopIssuesPrefix ==
  (ValidatedDocument \/ op = "validateOnePager in any order") =>
    LET reported == result.slopDetection
        kept == Min(2, Len(slopPenalty.issues))
    IN /\ slopPenalty.called
       /\ reported.penalty = slopPenalty.penalty
       /\ Len(reported.issues) <= 2
       /\ reported.issues =
            IF slopPenalty.penalty > 0
            THEN [i \in 1..kept |-> slopPenalty.issues[i]]
            ELSE <<>>
       /\ slopPenalty.issues \in {slop.issues : slop \in SlopResults}

\* C28 witness: three issues detected, two reported
C28_Witness ==
  /\ ValidatedDocument
  /\ slopPenalty.penalty > 0
  /\ Len(slopPenalty.issues) = 3
  /\ result.slopDetection.issues = <<"slop issue 1", "slop issue 2">>

\* the dimension scorers and their legacy aliases
C29_Scorers ==
  ScorerCalls \cup {"scoreProblemClarity", "scoreSolutionQuality",
                    "scoreScopeDiscipline", "scoreCompleteness"}

\* C29: only validateOnePager has the no-content case: a dimension scorer
\* or legacy alias called with null or undefined raises an error and
\* returns no zero-score DimensionResult.
C29_ScorersThrowOnNull ==
  text.type \in {"null", "undefined"} =>
    /\ op \in C29_Scorers =>
         /\ result = TypeError
         /\ \A maxScore \in {20, 25, 30} : result # NoContent(maxScore)
    /\ Validated => result = NoContentReport

\* C29 witness: a legacy alias has thrown on null
C29_Witness ==
  /\ op = "scoreProblemClarity"
  /\ text = Null
  /\ result = TypeError

\* C30: getTemplate(id) returns the template whose id is the argument for
\* the six keys of DOCUMENT_TEMPLATES and null for every other argument,
\* 'constructor' and 'toString' included; getAllTemplates returns exactly
\* those six templates.
C30_GetTemplate ==
  /\ op = "getTemplate" =>
       IF result.templateId \in {TemplateKeys[i] : i \in DOMAIN TemplateKeys}
       THEN result.value = DOCUMENT_TEMPLATES[result.templateId]
              /\ result.value.id = result.templateId
       ELSE result.value = JsNull
  /\ op = "getAllTemplates" =>
       /\ Len(result) = 6
       /\ {result[i].id : i \in DOMAIN result}
            = {TemplateKeys[i] : i \in DOMAIN TemplateKeys}

====
